---- MODULE Spec2Model ----
(***************************************************************************)
(* A model of vscode-tslint: the reconciliation of the auto fixes recorded *)
(* for a document (tslint-server/src/commands.ts and the older server.ts), *)
(* the client's application of the edits (tslint/extension.ts and its      *)
(* later revision) and the scheduling of validation passes                 *)
(* (tslint-server/src/validation.ts and the server entry points).          *)
(***************************************************************************)
EXTENDS Integers, Sequences, FiniteSets, TLC

(***************************************************************************)
(* Bounds of the model.                                                    *)
(***************************************************************************)
\* the largest number of fixes recorded for one document
MaxFixes == 3

\* the positions of the document the fixes are for: line 0 is empty, line 1
\* holds one character; this gives a later line, the same line at a greater
\* character, and edits over one or two lines
Lines == {0, 1}
Chars == {0, 1}

\* rule names of the failures
Rules == {"r1", "r2"}

(***************************************************************************)
(* Data: server.Position, TSLintAutofixEdit, AutoFix.                      *)
(***************************************************************************)
Position == {p \in [line : Lines, character : Chars] : p.line = 0 => p.character = 0}

\* a helper of the model: the document order of two positions
posLess(p, q) ==
    \/ p.line < q.line
    \/ p.line = q.line /\ p.character < q.character

posLeq(p, q) == p = q \/ posLess(p, q)

Seq2(S) == {<<a, b>> : a \in S, b \in S}

\* TSLintAutofixEdit: range is [start, end] (range[1], range[2] here), start
\* not after end (positionAt(repl.start), positionAt(repl.end))
TSLintAutofixEdit ==
    {e \in [range : Position \X Position, text : {""}] :
        posLeq(e.range[1], e.range[2])}

\* the edits of one fix ("The AutoFix.edits are sorted"): one edit, or two
\* zero-width edits, the second after the first
EditLists ==
    {<<e>> : e \in TSLintAutofixEdit}
    \cup {l \in Seq2({e \in TSLintAutofixEdit : e.range[1] = e.range[2]}) :
              posLess(l[1].range[2], l[2].range[1])}

\* AutoFix without its label; problem is represented by its rule name
AutoFix(ruleName, version, edits) ==
    [ruleName |-> ruleName, documentVersion |-> version, edits |-> edits]

\* the value of a missing map entry and of getLastEdit of an empty array
undefined == [ruleName |-> "undefined", documentVersion |-> -1, edits |-> <<>>]

(***************************************************************************)
(* State.                                                                  *)
(***************************************************************************)
VARIABLES
    \* the server's fix handlers
    documentFixes,  \* codeFixActions[uri]: the recorded fixes, in key order
    docVersion,     \* the version of the document the fixes were recorded for
    reply,          \* the answer of a handler that the client has not taken yet
    rounds,         \* fix-all rounds applied by the client so far
    \* a caller of the exported getAllNonOverlappingFixes (the unit test)
    input,          \* the array literal the caller wrote
    callerArray,    \* the caller's array object, which the function sorts in place
    returned,       \* the arrays the calls returned
    \* the client's edit-application commands
    client,         \* the revision of the extension: "extension.ts" or "part_002"
    activeIsTarget, \* the active editor shows the document the command is for
    editorVersion,  \* textEditor.document.version
    editorText,     \* the document's text: the changes made to it so far
    command,        \* the command the user is about to run
    notices,        \* the messages the last command showed
    \* the server's validation of a document
    document,       \* the TextDocument of the uri: is it open, and its version
    run,            \* settings.run: "onType" or "onSave"
    scopedSettingsSupport, \* the client answers workspace/configuration requests
    settingsCacheUri,      \* settingsCache.uri: the uri the cached settings are for
    settingsCachePromise,  \* settingsCache.promise: the promise of those settings
    validationDelayer,     \* validationDelayer[uri]: "undefined", or "armed"
    document2Library,      \* the promise of the library of the uri
    passes,         \* the calls of validateTextDocument that have not finished
    handlers,       \* the event handlers that wait for the settings
    published,      \* the diagnostics the client has for the uri
    codeFixActions, \* codeFixActions[uri]: the fixes recorded by doValidate
    \* the debounce of the server that validates through forceValidation
    delayerEntry,   \* validationDelayer[uri]: 0 (undefined), or a Delayer
    delayerTimers,  \* the Delayers whose timer is pending
    settingsPromise,\* settingsCache.promise for the uri
    forceAwaiting,  \* the calls of forceValidation that await validateTextDocument
    validations,    \* the calls of validateTextDocument so far
    forcedValidations, \* those of them that the AllFixes request started
    bursts,         \* the bursts of triggers so far
    \* the fix-all run of the client
    fixAllRun,      \* the locals of doFixAllProblems and what it has done
    now,            \* Date.now()
    \* the lint pass of two documents: configuration cache and engine
    server,         \* the revision of the server that runs
    engine,         \* what the engine finds as configuration of each path
    validateWithDefaultConfig, \* the setting tslint.validateWithDefaultConfig
    configCache,    \* the single-entry ConfigCache
    engineCalls,    \* the calls of findConfiguration so far
    flushedAt,      \* engineCalls at the last flush of the cache
    lastResolution, \* the last call of getConfiguration since the last flush
    microtasks,     \* the continuations that are ready to run, first in first out
    lintPass,       \* per document, the locals and the outcome of its pass
    consoleWarn,    \* console.warn: 0 the original, n a captureWarnings n deep
    diagnosticsOf,  \* per document, the diagnostics the client holds
    configurationFailures, \* per document, the calls of showConfigurationFailure
                    \* since the configuration last changed
    \* the resolution of the tslint library
    nodePathSetting,\* the setting tslint.nodePath: unset, or a path that is missing or exists
    installed,      \* the places where a tslint module is installed
    docOpen,        \* per document, whether it is open
    lib,            \* the maps of the server and what it did with them
    \* the recording of the fixes of a pass and the disable-rule command
    buffer,         \* the text of the document in the editor, and its version
    recording,      \* the fix maps of the server, and what was offered and run
    \* fixing on save and by command
    saving,         \* the client's settings and document, and its fix-all request
    \* the exclusion of documents from linting, and the cache of bindings
    lintTarget,     \* per document, what its path and language are and the
                    \* settings that exclude documents
    mruCache        \* the MruCache of the runner: its map and its recency set

fixVars == <<documentFixes, docVersion, reply, rounds>>
unitVars == <<input, callerArray, returned>>
clientVars == <<client, activeIsTarget, editorVersion, editorText, command, notices>>

valVars ==
    <<document, run, scopedSettingsSupport, settingsCacheUri, settingsCachePromise,
      validationDelayer, document2Library, passes, handlers, published, codeFixActions>>

forceVars ==
    <<delayerEntry, delayerTimers, settingsPromise, forceAwaiting, validations,
      forcedValidations, bursts>>

\* the parts of the state that the specifications above leave alone
fixAllVars == <<fixAllRun, now>>

passVars ==
    <<server, engine, validateWithDefaultConfig, configCache, engineCalls, flushedAt,
      lastResolution, microtasks, lintPass, consoleWarn, diagnosticsOf,
      configurationFailures>>

libVars == <<nodePathSetting, installed, docOpen, lib>>

\* the variable groups of the later specifications
recordVars == <<buffer, recording>>

saveVars == <<saving>>

lastVars == <<lintTarget, mruCache>>

laterVars == <<libVars, recordVars, saveVars, lastVars>>

restVars == <<forceVars, fixAllVars, passVars, laterVars>>

\* what the actions of the debounce, of the fix-all run and of the lint
\* pass leave alone
notForce == <<fixVars, unitVars, clientVars, valVars, fixAllVars, passVars, laterVars>>
notFixAll == <<fixVars, unitVars, valVars, forceVars, passVars, laterVars>>
notPass == <<fixVars, unitVars, clientVars, valVars, forceVars, fixAllVars, laterVars>>
notLib == <<fixVars, unitVars, clientVars, valVars, forceVars, fixAllVars,
            engine, validateWithDefaultConfig, configCache, engineCalls, flushedAt,
            lastResolution, microtasks, lintPass, consoleWarn, diagnosticsOf,
            configurationFailures, recordVars, saveVars, lastVars>>
notRecord == <<fixVars, unitVars, clientVars, valVars, forceVars, fixAllVars,
               passVars, libVars, saveVars, lastVars>>
notSave == <<fixVars, unitVars, clientVars, valVars, forceVars, fixAllVars,
             passVars, libVars, recordVars, lastVars>>
notMru == <<fixVars, unitVars, clientVars, valVars, forceVars, fixAllVars,
            passVars, libVars, recordVars, saveVars, lintTarget>>

vars == <<fixVars, unitVars, clientVars, valVars, restVars>>

(***************************************************************************)
(* commands.ts: sorting, overlap test and the greedy walk.                 *)
(***************************************************************************)
\* `x < y` of two plain objects: both operands are converted with
\* ToPrimitive, which for a {line, character} literal is
\* Object.prototype.toString, and the two strings are compared
ToPrimitive(o) == "[object Object]"

\* the relational comparison of two strings; equal strings are not less
jsLessThan(s, t) == IF s = t THEN FALSE ELSE CHOOSE b \in BOOLEAN : TRUE

\* a comparator that orders the fixes by the start and then the end of
\* their first edit
compareFixesByPosition(a, b) ==
    LET editA == a.edits[1]
        editB == b.edits[1]
    IN  IF posLess(editA.range[1], editB.range[1]) THEN -1
        ELSE IF posLess(editB.range[1], editA.range[1]) THEN 1
        ELSE IF posLess(editA.range[2], editB.range[2]) THEN -1
        ELSE IF posLess(editB.range[2], editA.range[2]) THEN 1
        ELSE 0

\* the comparator handed to Array.prototype.sort by sortFixes
compareFixes(a, b) ==
    LET editA == a.edits[1]
        editB == b.edits[1]
    IN  IF jsLessThan(ToPrimitive(editA.range[1]), ToPrimitive(editB.range[1])) THEN -1
        ELSE IF jsLessThan(ToPrimitive(editB.range[1]), ToPrimitive(editA.range[1])) THEN 1
        ELSE IF jsLessThan(ToPrimitive(editA.range[2]), ToPrimitive(editB.range[2])) THEN -1
        ELSE IF jsLessThan(ToPrimitive(editB.range[2]), ToPrimitive(editA.range[2])) THEN 1
        ELSE 0

\* Array.prototype.sort(comparefn) for arrays of at most ten elements: the
\* engine's insertion sort, which moves an element left past every
\* predecessor that compares greater (a stable merge sort in later engines
\* gives the same array for a consistent comparator)
RECURSIVE insertionStep(_, _)
insertionStep(prefix, element) ==
    IF prefix = <<>> THEN <<element>>
    ELSE LET tmp == prefix[Len(prefix)]
         IN  IF compareFixes(tmp, element) > 0
             THEN Append(insertionStep(SubSeq(prefix, 1, Len(prefix) - 1), element), tmp)
             ELSE Append(prefix, element)

RECURSIVE arraySort(_)
arraySort(a) ==
    IF a = <<>> THEN <<>>
    ELSE insertionStep(arraySort(SubSeq(a, 1, Len(a) - 1)), a[Len(a)])

\* a sort that leaves the array in the opposite order
RECURSIVE reverseFixes(_)
reverseFixes(fixes) ==
    IF fixes = <<>> THEN <<>>
    ELSE Append(reverseFixes(Tail(fixes)), Head(fixes))

sortFixes(fixes) == arraySort(fixes)

\* a variant of overlaps that compares the lines only
overlapsByLine(lastFix, nextFix) ==
    IF lastFix = undefined THEN FALSE
    ELSE \E i \in DOMAIN lastFix.edits : \E j \in DOMAIN nextFix.edits :
            lastFix.edits[i].range[2].line >= nextFix.edits[j].range[1].line

\* a variant of overlaps that takes a missing last fix for an overlap
overlapsWithoutLast(lastFix, nextFix) ==
    IF lastFix = undefined THEN TRUE
    ELSE \E i \in DOMAIN lastFix.edits : \E j \in DOMAIN nextFix.edits :
            LET last == lastFix.edits[i]
                next == nextFix.edits[j]
            IN  IF last.range[2].line > next.range[1].line THEN TRUE
                ELSE IF last.range[2].line < next.range[1].line THEN FALSE
                ELSE last.range[2].character >= next.range[1].character

overlaps(lastFix, nextFix) ==
    IF lastFix = undefined THEN FALSE
    ELSE \E i \in DOMAIN lastFix.edits : \E j \in DOMAIN nextFix.edits :
            LET last == lastFix.edits[i]
                next == nextFix.edits[j]
            IN  IF last.range[2].line > next.range[1].line THEN TRUE
                ELSE IF last.range[2].line < next.range[1].line THEN FALSE
                ELSE last.range[2].character >= next.range[1].character

getLastEdit(array) ==
    IF Len(array) = 0 THEN undefined ELSE array[Len(array)]

\* the loop of getAllNonOverlappingFixes over the first n sorted fixes
RECURSIVE nonOverlappingWalk(_, _)
nonOverlappingWalk(fixes, n) ==
    IF n = 0 THEN <<>>
    ELSE LET nonOverlapping == nonOverlappingWalk(fixes, n - 1)
             autofix == fixes[n]
         IN  IF ~overlaps(getLastEdit(nonOverlapping), autofix)
             THEN Append(nonOverlapping, autofix)
             ELSE nonOverlapping

getAllNonOverlappingFixes(fixes) ==
    LET sorted == sortFixes(fixes)
    IN  nonOverlappingWalk(sorted, Len(sorted))

createTextEdit(autoFix) ==
    [i \in DOMAIN autoFix.edits |->
        [range |-> autoFix.edits[i].range, newText |-> autoFix.edits[i].text]]

RECURSIVE concatenateEdits(_)
concatenateEdits(fixes) ==
    IF fixes = <<>> THEN <<>>
    ELSE concatenateEdits(SubSeq(fixes, 1, Len(fixes) - 1))
            \o createTextEdit(fixes[Len(fixes)])

SeqsUpTo(S, n) == UNION {[1..k -> S] : k \in 0..n}

\* fixes with one edit, of any rule
SingleEditFixes == {AutoFix(r, 1, <<e>>) : r \in Rules, e \in TSLintAutofixEdit}

\* fixes of one rule with one or two edits
MultiEditFixes == {AutoFix("r1", 1, l) : l \in EditLists}

\* the parameters of a request that is not a fix-all request on save
NoParams == [isOnSave |-> FALSE, autoFixOnSave |-> [isArray |-> FALSE, rules |-> {}]]

\* an answer of a handler: the version and rule it worked with, the selected
\* diagnostics, the fixes it reconciled, the batches and what it sent, and
\* the isOnSave and settings.autoFixOnSave of the request it answers
NoReply ==
    [kind |-> "none", documentVersion |-> -1, ruleId |-> "undefined",
     diagnostics |-> <<>>, candidates |-> <<>>,
     same |-> <<>>, all |-> <<>>, commands |-> <<>>, params |-> NoParams]

(***************************************************************************)
(* commands.ts: onCodeAction, the part that offers auto fixes.             *)
(***************************************************************************)
\* documentFixes[computeKey(diagnostic)]; a diagnostic with no recorded fix
\* has a key that is not in the map
lookupFix(fixes, key) == IF key \in DOMAIN fixes THEN fixes[key] ELSE undefined

Command(title, version, edits) ==
    [command |-> title, documentVersion |-> version, edits |-> edits]

\* the first loop of onCodeAction over the first n selected diagnostics
RECURSIVE singleFixLoop(_, _, _)
singleFixLoop(fixes, diagnostics, n) ==
    IF n = 0
    THEN [documentVersion |-> -1, ruleId |-> "undefined", result |-> <<>>]
    ELSE LET before == singleFixLoop(fixes, diagnostics, n - 1)
             autoFix == lookupFix(fixes, diagnostics[n])
         IN  IF autoFix # undefined
             THEN [documentVersion |-> autoFix.documentVersion,
                   ruleId |-> autoFix.ruleName,
                   result |-> Append(before.result,
                       Command("_tslint.applySingleFix", autoFix.documentVersion,
                               createTextEdit(autoFix)))]
             ELSE before

\* a variant of the second loop in which the same-rule batch tests a fix
\* against the last fix of the fix-all batch
RECURSIVE batchLoopShared(_, _, _)
batchLoopShared(fixes, ruleId, n) ==
    IF n = 0 THEN [same |-> <<>>, all |-> <<>>]
    ELSE LET before == batchLoopShared(fixes, ruleId, n - 1)
             autofix == fixes[n]
         IN  [same |-> IF autofix.ruleName = ruleId
                          /\ ~overlaps(getLastEdit(before.all), autofix)
                       THEN Append(before.same, autofix) ELSE before.same,
              all  |-> IF ~overlaps(getLastEdit(before.all), autofix)
                       THEN Append(before.all, autofix) ELSE before.all]

\* the second loop of onCodeAction over the first n sorted fixes
RECURSIVE batchLoop(_, _, _)
batchLoop(fixes, ruleId, n) ==
    IF n = 0 THEN [same |-> <<>>, all |-> <<>>]
    ELSE LET before == batchLoop(fixes, ruleId, n - 1)
             autofix == fixes[n]
         IN  [same |-> IF autofix.ruleName = ruleId
                          /\ ~overlaps(getLastEdit(before.same), autofix)
                       THEN Append(before.same, autofix) ELSE before.same,
              all  |-> IF ~overlaps(getLastEdit(before.all), autofix)
                       THEN Append(before.all, autofix) ELSE before.all]

onCodeActionResult(fixes, diagnostics) ==
    LET first == singleFixLoop(fixes, diagnostics, Len(diagnostics))
        sorted == sortFixes(fixes)
        batches == IF fixes # <<>> /\ Len(first.result) > 0
                   THEN batchLoop(sorted, first.ruleId, Len(sorted))
                   ELSE [same |-> <<>>, all |-> <<>>]
        sameCommand == IF Len(batches.same) > 1
                       THEN <<Command("_tslint.applySameFixes", first.documentVersion,
                                      concatenateEdits(batches.same))>>
                       ELSE <<>>
        allCommand == IF Len(batches.all) > 1
                      THEN <<Command("_tslint.applyAllFixes", first.documentVersion,
                                     concatenateEdits(batches.all))>>
                      ELSE <<>>
    IN  [kind |-> "codeAction", documentVersion |-> first.documentVersion,
         ruleId |-> first.ruleId, diagnostics |-> diagnostics,
         candidates |-> fixes, same |-> batches.same, all |-> batches.all,
         commands |-> first.result \o sameCommand \o allCommand,
         params |-> NoParams]

\* the diagnostics under the cursor: one diagnostic (key 0 has no fix), or
\* two neighbouring ones
Selections(n) ==
    {<<k>> : k \in 0..n} \cup {<<k, k + 1>> : k \in 1..(n - 1)}
        \cup {<<k + 1, k>> : k \in 1..(n - 1)}

onCodeAction ==
    /\ reply.kind = "none"
    /\ \E diagnostics \in Selections(Len(documentFixes)) :
          reply' = onCodeActionResult(documentFixes, diagnostics)
    /\ UNCHANGED <<documentFixes, docVersion, rounds, unitVars, clientVars, valVars, restVars>>

(***************************************************************************)
(* commands.ts: onAllFixesRequest.                                         *)
(***************************************************************************)
\* settings.autoFixOnSave: a boolean, or an array of rule names
AutoFixOnSaveValues ==
    {[isArray |-> FALSE, rules |-> {}]}
        \cup {[isArray |-> TRUE, rules |-> rs] : rs \in SUBSET Rules}

firstDocumentVersion(fixes) ==
    IF Len(fixes) > 0 THEN fixes[1].documentVersion ELSE -1

\* a variant of the handler that restricts the fixes to the listed rules
\* after the overlap filtering
onAllFixesRequestFilterLast(stored, isOnSave, autoFixOnSave) ==
    IF stored = <<>>
    THEN [NoReply EXCEPT !.kind = "undefined",
                         !.params = [isOnSave |-> isOnSave, autoFixOnSave |-> autoFixOnSave]]
    ELSE LET allFixes == getAllNonOverlappingFixes(stored)
             fixes == IF isOnSave /\ autoFixOnSave.isArray
                      THEN SelectSeq(allFixes, LAMBDA fix : fix.ruleName \in autoFixOnSave.rules)
                      ELSE allFixes
         IN  [kind |-> "allFixes", documentVersion |-> firstDocumentVersion(stored),
              ruleId |-> "undefined", diagnostics |-> <<>>,
              candidates |-> stored, same |-> <<>>, all |-> fixes,
              commands |-> <<Command("result", firstDocumentVersion(stored),
                                     concatenateEdits(fixes))>>,
              params |-> [isOnSave |-> isOnSave, autoFixOnSave |-> autoFixOnSave]]

onAllFixesRequestResult(stored, isOnSave, autoFixOnSave) ==
    IF stored = <<>>
    THEN [NoReply EXCEPT !.kind = "undefined",
                         !.params = [isOnSave |-> isOnSave, autoFixOnSave |-> autoFixOnSave]]
    ELSE LET fixes == IF isOnSave /\ autoFixOnSave.isArray
                      THEN SelectSeq(stored, LAMBDA fix : fix.ruleName \in autoFixOnSave.rules)
                      ELSE stored
             allFixes == getAllNonOverlappingFixes(fixes)
         IN  [kind |-> "allFixes", documentVersion |-> firstDocumentVersion(stored),
              ruleId |-> "undefined", diagnostics |-> <<>>,
              candidates |-> fixes, same |-> <<>>, all |-> allFixes,
              commands |-> <<Command("result", firstDocumentVersion(stored),
                                     concatenateEdits(allFixes))>>,
              params |-> [isOnSave |-> isOnSave, autoFixOnSave |-> autoFixOnSave]]

onAllFixesRequest ==
    /\ reply.kind = "none"
    /\ \E isOnSave \in BOOLEAN : \E autoFixOnSave \in AutoFixOnSaveValues :
          reply' = onAllFixesRequestResult(documentFixes, isOnSave, autoFixOnSave)
    /\ UNCHANGED <<documentFixes, docVersion, rounds, unitVars, clientVars, valVars, restVars>>

(***************************************************************************)
(* server.ts: the handler of AllFixesRequest of the older server.          *)
(***************************************************************************)
serverAllFixesResult(stored) ==
    IF stored = <<>> THEN [NoReply EXCEPT !.kind = "null"]
    ELSE [kind |-> "allFixesServer", documentVersion |-> firstDocumentVersion(stored),
          ruleId |-> "undefined", diagnostics |-> <<>>,
          candidates |-> stored, same |-> <<>>, all |-> stored,
          commands |-> <<Command("result", firstDocumentVersion(stored),
                                 concatenateEdits(stored))>>,
          params |-> NoParams]

serverOnAllFixesRequest ==
    /\ reply.kind = "none"
    /\ reply' = serverAllFixesResult(documentFixes)
    /\ UNCHANGED <<documentFixes, docVersion, rounds, unitVars, clientVars, valVars, restVars>>

(***************************************************************************)
(* A fix-all round: the client applies the batch of onAllFixesRequest, the *)
(* document gets a new version and is linted again; the failures whose     *)
(* fixes were applied are gone, the others are recorded again.             *)
(***************************************************************************)
RECURSIVE removeFixes(_, _)
removeFixes(fixes, batch) ==
    IF batch = <<>> THEN fixes
    ELSE LET i == CHOOSE k \in DOMAIN fixes :
                    /\ fixes[k] = batch[1]
                    /\ \A j \in 1..(k - 1) : fixes[j] # batch[1]
         IN  removeFixes(SubSeq(fixes, 1, i - 1) \o SubSeq(fixes, i + 1, Len(fixes)),
                         Tail(batch))

fixAllRound ==
    /\ reply.kind = "none"
    /\ documentFixes # <<>>
    /\ rounds <= MaxFixes
    /\ LET result == onAllFixesRequestResult(documentFixes, FALSE,
                                             [isArray |-> FALSE, rules |-> {}])
           rest == removeFixes(documentFixes, result.all)
       IN  /\ documentFixes' =
                 [i \in DOMAIN rest |-> [rest[i] EXCEPT !.documentVersion = docVersion + 1]]
           /\ reply' = result
    /\ docVersion' = docVersion + 1
    /\ rounds' = rounds + 1
    /\ UNCHANGED <<unitVars, clientVars, valVars, restVars>>

\* the client takes the answer; the server handles one request at a time
receiveReply ==
    /\ reply.kind # "none"
    /\ reply' = NoReply
    /\ UNCHANGED <<documentFixes, docVersion, rounds, unitVars, clientVars, valVars, restVars>>

\* the states of the parts of the program a specification leaves alone
fixIdle ==
    /\ documentFixes = <<>>
    /\ docVersion = 1
    /\ reply = NoReply
    /\ rounds = 0

unitIdle ==
    /\ input = <<>>
    /\ callerArray = <<>>
    /\ returned = <<>>

NoCommand == [command |-> "none", documentVersion |-> -1, edits |-> <<>>]

clientIdle ==
    /\ client = "part_002"
    /\ activeIsTarget = TRUE
    /\ editorVersion = 1
    /\ editorText = <<>>
    /\ command = NoCommand
    /\ notices = <<>>

\* the largest number of calls of validateTextDocument in progress
MaxPasses == 2

\* the largest number of event handlers that await the settings
MaxHandlers == 1

NoPass == [pc |-> "idle", ready |-> FALSE, contents |-> 0, awaits |-> 0]

NoDiagnostics == [kind |-> "none", version |-> 0]

valIdle ==
    /\ document = [open |-> FALSE, version |-> 0]
    /\ run = "onType"
    /\ scopedSettingsSupport = FALSE
    /\ settingsCacheUri = "undefined"
    /\ settingsCachePromise = [id |-> 0, resolved |-> FALSE]
    /\ validationDelayer = "undefined"
    /\ document2Library = "absent"
    /\ passes = [p \in 1..MaxPasses |-> NoPass]
    /\ handlers = {}
    /\ published = NoDiagnostics
    /\ codeFixActions = {}

forceIdle ==
    /\ delayerEntry = 0
    /\ delayerTimers = {}
    /\ settingsPromise = "undefined"
    /\ forceAwaiting = 0
    /\ validations = 0
    /\ forcedValidations = 0
    /\ bursts = 0

\* the answer to an AllFixes request that carries no result
NoResult == [documentVersion |-> 0, overlappingFixes |-> FALSE, edits |-> <<>>]

NoRun == [pc |-> "idle", timeBudget |-> 0, start |-> 0, loopCount |-> 0,
          lastVersion |-> 0, result |-> NoResult, requests |-> 0, applied |-> 0]

fixAllIdle ==
    /\ fixAllRun = NoRun
    /\ now = 0

\* the documents that are open, by path
Docs == {"a.ts", "b.ts"}

\* no Configuration (undefined)
NoConfiguration == [id |-> 0, isDefaultLinterConfig |-> FALSE]

\* new ConfigCache()
EmptyCache == [filePath |-> "undefined", configuration |-> NoConfiguration]

NoResolution == [filePath |-> "undefined", configuration |-> NoConfiguration]

NoLintPass == [pc |-> "idle", configuration |-> NoConfiguration, threw |-> FALSE,
               decided |-> FALSE, flagUsed |-> FALSE, linted |-> "no",
               diagnostics |-> "none", reported |-> FALSE, escaped |-> FALSE]

passIdle ==
    /\ server = "validation.ts"
    /\ engine = [d \in Docs |-> "own"]
    /\ validateWithDefaultConfig = TRUE
    /\ configCache = EmptyCache
    /\ engineCalls = 0
    /\ flushedAt = 0
    /\ lastResolution = NoResolution
    /\ microtasks = <<>>
    /\ lintPass = [d \in Docs |-> NoLintPass]
    /\ consoleWarn = 0
    /\ diagnosticsOf = [d \in Docs |-> "none"]
    /\ configurationFailures = [d \in Docs |-> 0]

\* the places a tslint module can be installed in: the directory of the
\* setting tslint.nodePath, the folder of a.ts, and the global folder of
\* the package manager (the folder of b.ts, dirB, never has one)
Places == {"nodePath", "dirA", "global"}

\* what resolution answers: a place, or "" when it found no module
Paths == Places \cup {""}

NoBinding == [state |-> "absent", path |-> ""]

NoLinter == [path |-> "none", load |-> 0]

NoLib == [document2Library |-> [d \in Docs |-> NoBinding],
          path2Library |-> [p \in Paths |-> "absent"],
          promises |-> {},
          resolutions |-> [d \in Docs |-> 0],
          noLibraryRequests |-> [d \in Docs |-> 0],
          requires |-> [p \in Paths |-> 0],
          linter |-> [d \in Docs |-> NoLinter]]

libIdle ==
    /\ nodePathSetting = "unset"
    /\ installed = {}
    /\ docOpen = [d \in Docs |-> FALSE]
    /\ lib = NoLib

NoRecording ==
    [server |-> "commands.ts", client |-> "part_002", diagnostics |-> {},
     codeFixActions |-> <<>>, codeDisableRuleActions |-> <<>>,
     context |-> <<>>, commands |-> <<>>, ran |-> 0]

recordIdle ==
    /\ buffer = [lines |-> <<>>, version |-> 1]
    /\ recording = NoRecording

\* the last answer the client took: none yet
NoSaveResult == [kind |-> "none", all |-> <<>>, candidates |-> <<>>,
                 overlappingFixes |-> FALSE]

NoSaving ==
    [client |-> "part_002", setting |-> "false", rules |-> {}, listening |-> FALSE,
     languageOk |-> TRUE, stored |-> <<>>, version |-> 1,
     pc |-> "idle", origin |-> "none", reason |-> "none", isOnSave |-> FALSE,
     timeBudget |-> 0, loopCount |-> 0, lastVersion |-> 0, requests |-> 0,
     applied |-> 0, result |-> NoSaveResult, ended |-> "none"]

saveIdle == saving = NoSaving

\* a TypeScript source file that no setting excludes
PlainFile ==
    [declaration |-> FALSE, matchesExclude |-> FALSE, js |-> FALSE,
     ignoreDefinitionFiles |-> FALSE, jsEnable |-> FALSE, enable |-> TRUE]

\* an MruCache after construction; got is what the last get returned,
\* evicted whether a set has deleted a key
EmptyMru == [map |-> <<>>, entries |-> <<>>, got |-> "none", evicted |-> FALSE]

lastIdle ==
    /\ lintTarget = [d \in Docs |-> PlainFile]
    /\ mruCache = EmptyMru

laterIdle == libIdle /\ recordIdle /\ saveIdle /\ lastIdle

restIdle == forceIdle /\ fixAllIdle /\ passIdle /\ laterIdle

Init ==
    /\ documentFixes \in SeqsUpTo(SingleEditFixes, MaxFixes)
                            \cup SeqsUpTo(MultiEditFixes, MaxFixes)
    /\ docVersion = 1
    /\ reply = NoReply
    /\ rounds = 0
    /\ unitIdle
    /\ clientIdle
    /\ valIdle
    /\ restIdle

Next ==
    \/ onCodeAction
    \/ onAllFixesRequest
    \/ serverOnAllFixesRequest
    \/ fixAllRound
    \/ receiveReply

Spec == Init /\ [][Next]_vars

(***************************************************************************)
(* Properties of the fix handlers.                                         *)
(***************************************************************************)
\* two ranges share text: each starts before the other ends
rangesIntersect(a, b) ==
    posLess(a.range[1], b.range[2]) /\ posLess(b.range[1], a.range[2])

fixesIntersect(f, g) ==
    \E i \in DOMAIN f.edits : \E j \in DOMAIN g.edits :
        rangesIntersect(f.edits[i], g.edits[j])

noTwoIntersect(batch) ==
    \A i \in DOMAIN batch : \A j \in DOMAIN batch :
        i # j => ~fixesIntersect(batch[i], batch[j])

\* every edit of f ends before any edit of g starts
fixBefore(f, g) ==
    \A i \in DOMAIN f.edits : \A j \in DOMAIN g.edits :
        posLess(f.edits[i].range[2], g.edits[j].range[1])

pairwiseNonOverlapping(fixes) ==
    \A i \in DOMAIN fixes : \A j \in DOMAIN fixes :
        i # j => fixBefore(fixes[i], fixes[j]) \/ fixBefore(fixes[j], fixes[i])

ascending(batch) ==
    \A i \in DOMAIN batch : \A j \in DOMAIN batch :
        i < j => fixBefore(batch[i], batch[j])

\* the handler reconciled its candidates into batches
reconciled ==
    \/ reply.kind = "allFixes"
    \/ reply.kind = "codeAction" /\ reply.commands # <<>>

\* C1: every batch a handler answers with (the same-rule and the fix-all
\* batch of onCodeAction, the result of the AllFixes request) holds no two
\* fixes whose ranges intersect.
C1_BatchesNeverIntersect ==
    reply.kind # "none" => noTwoIntersect(reply.same) /\ noTwoIntersect(reply.all)

\* C2: when the candidate fixes are pairwise non-overlapping, in whatever
\* order they are recorded, the fix-all batch holds every one of them, in
\* ascending order.
C2_NonOverlappingAllKept ==
    (reconciled /\ pairwiseNonOverlapping(reply.candidates)) =>
        /\ Len(reply.all) = Len(reply.candidates)
        /\ \A i \in DOMAIN reply.candidates :
              \E j \in DOMAIN reply.all : reply.all[j] = reply.candidates[i]
        /\ ascending(reply.all)

\* C6: every fix-all round on a non-empty set of fixes accepts at least one
\* fix, so that after k rounds on the rejected remainder at most
\* MaxFixes - k fixes are left and the rounds reach the empty set.
C6_RoundsReachEmpty ==
    /\ Len(documentFixes) + rounds <= MaxFixes
    /\ (reply.kind = "allFixes" /\ reply.candidates # <<>>) => reply.all # <<>>

\* a second round was needed and emptied the set
C6_Witness == rounds >= 2 /\ documentFixes = <<>> /\ reply.kind = "allFixes"

\* the rule of the selected diagnostic onCodeAction builds the batches for:
\* the last selected diagnostic that has a fix
selectedRule ==
    LET withFix == SelectSeq(reply.diagnostics,
                             LAMBDA k : k \in DOMAIN reply.candidates)
    IN  reply.candidates[withFix[Len(withFix)]].ruleName

\* C8: the same-rule batch of onCodeAction holds only fixes of the selected
\* diagnostic's rule, and it is the greedy walk over the fixes of that rule
\* alone, whatever the fix-all walk accepted.
C8_SameRuleBatchOwnWalk ==
    (reply.kind = "codeAction" /\ reply.commands # <<>>) =>
        LET ofRule == SelectSeq(sortFixes(reply.candidates),
                                LAMBDA f : f.ruleName = selectedRule)
        IN  /\ \A i \in DOMAIN reply.same : reply.same[i].ruleName = selectedRule
            /\ reply.same = nonOverlappingWalk(ofRule, Len(ofRule))

\* the same-rule batch accepted a fix that the fix-all batch rejected
C8_Witness ==
    /\ reply.kind = "codeAction"
    /\ Len(reply.same) >= 2
    /\ \E i \in DOMAIN reply.same :
          \A j \in DOMAIN reply.all : reply.all[j] # reply.same[i]

(***************************************************************************)
(* The exported getAllNonOverlappingFixes and its caller: the unit test    *)
(* and callers with other arrays.  The function sorts the array it is      *)
(* given in place and returns a new array.                                 *)
(***************************************************************************)
\* the largest number of calls a caller makes on one array
MaxCalls == 2

pos(line, char) == [line |-> line, character |-> char]

range(startLine, startChar, endLine, endChar) ==
    <<pos(startLine, startChar), pos(endLine, endChar)>>

autoFixEdit(startLine, startChar, endLine, endChar) ==
    [range |-> range(startLine, startChar, endLine, endChar), text |-> ""]

autofix(startLine, startChar, endLine, endChar) ==
    [ruleName |-> "undefined", documentVersion |-> 1,
     edits |-> <<autoFixEdit(startLine, startChar, endLine, endChar)>>]

\* the arrays of the test 'non overlapping fixes'
testArrays ==
    { <<autofix(1, 0, 6, 0)>>,
      <<autofix(1, 0, 6, 0), autofix(4, 9, 4, 9)>>,
      <<autofix(1, 0, 1, 0), autofix(1, 0, 1, 0)>>,
      <<autofix(1, 0, 6, 0), autofix(1, 0, 6, 0)>>,
      <<autofix(1, 0, 6, 0), autofix(6, 0, 6, 0)>>,
      <<autofix(1, 0, 6, 0), autofix(7, 0, 7, 0)>>,
      <<autofix(1, 0, 6, 0), autofix(6, 1, 6, 1)>> }

callGetAllNonOverlappingFixes ==
    /\ Len(returned) < MaxCalls
    /\ returned' = Append(returned, getAllNonOverlappingFixes(callerArray))
    /\ callerArray' = sortFixes(callerArray)
    /\ UNCHANGED <<input, fixVars, clientVars, valVars, restVars>>

InitUnit ==
    /\ input \in testArrays \cup SeqsUpTo(SingleEditFixes \cup MultiEditFixes, MaxFixes)
    /\ callerArray = input
    /\ returned = <<>>
    /\ fixIdle
    /\ clientIdle
    /\ valIdle
    /\ restIdle

NextUnit == callGetAllNonOverlappingFixes

SpecUnit == InitUnit /\ [][NextUnit]_vars

\* the caller gave two fixes of one edit each and the first call returned
twoSingleEditFixes ==
    /\ Len(returned) >= 1
    /\ Len(input) = 2
    /\ Len(input[1].edits) = 1
    /\ Len(input[2].edits) = 1

sameLineLaterCharacter == <<autofix(1, 0, 6, 0), autofix(6, 1, 6, 1)>>

\* C5 as the claim has it: the fixes over [1,0]-[6,0] and [6,1]-[6,1] are
\* treated as overlapping, because the second starts on the last line of
\* the first, and only the first is kept.
C5_SameLineOnlyFirstKept ==
    (input = sameLineLaterCharacter /\ Len(returned) >= 1) =>
        returned[1] = <<autofix(1, 0, 6, 0)>>

\* C5: the fixes over [1,0]-[6,0] and [6,1]-[6,1] are not treated as
\* overlapping: the second starts on the last line of the first at a
\* character after its end, and both fixes are kept, in that order.
C5_SameLineLaterCharacterKept ==
    (input = sameLineLaterCharacter /\ Len(returned) >= 1) =>
        returned[1] = <<autofix(1, 0, 6, 0), autofix(6, 1, 6, 1)>>

\* the function was called on the array of the test's last assertion
C5_Witness == input = sameLineLaterCharacter /\ Len(returned) >= 1

MaxVersion == 3

outdated == "TSLint fixes are outdated and can't be applied to the document."
failed == "Failed to apply TSLint fixes to the document. Please consider opening an issue with steps to reproduce."

\* what a command function did: the messages it showed and the edits it
\* handed to textEditor.edit (none when it did not call it)
Applied(shown, edits) == [notices |-> shown, edit |-> edits]

\* extension.ts: applyTextEdits
extension_applyTextEdits(active, version, documentVersion, edits) ==
    IF active
    THEN Applied(IF version # documentVersion THEN <<outdated>> ELSE <<>>, edits)
    ELSE Applied(<<>>, <<>>)

\* the later revision: applyTextEdits
part_002_applyTextEdits(active, version, documentVersion, edits) ==
    IF active
    THEN IF documentVersion # -1 /\ version # documentVersion
         THEN Applied(<<outdated>>, <<>>)
         ELSE Applied(<<>>, edits)
    ELSE Applied(<<>>, <<>>)

applyTextEdits(revision, active, version, documentVersion, edits) ==
    IF revision = "extension.ts"
    THEN extension_applyTextEdits(active, version, documentVersion, edits)
    ELSE part_002_applyTextEdits(active, version, documentVersion, edits)

\* applyDisableRuleEdit, the same text in both revisions: it puts the indent
\* of the line before the comment and calls the revision's applyTextEdits
applyDisableRuleEdit(revision, active, version, documentVersion, edits) ==
    IF active
    THEN LET shown == IF version # documentVersion THEN <<outdated>> ELSE <<>>
             edit == [edits[1] EXCEPT !.newText = <<"prefix">> \o edits[1].newText]
             inner == applyTextEdits(revision, active, version, documentVersion,
                                     [edits EXCEPT ![1] = edit])
         IN  Applied(shown \o inner.notices, inner.edit)
    ELSE Applied(<<>>, <<>>)

\* the commands of a code action that carry edits, with the function each
\* revision registers for them
editCommands(revision) ==
    {"_tslint.applySingleFix", "_tslint.applySameFixes", "_tslint.applyDisableRule"}
        \cup (IF revision = "extension.ts" THEN {"_tslint.applyAllFixes"} ELSE {})

\* the server answered a code action request with a command that carries
\* the version its fixes were recorded for
offerCommand ==
    /\ command = NoCommand
    /\ \E title \in editCommands(client) : \E documentVersion \in 1..editorVersion :
          command' = Command(title, documentVersion, <<[newText |-> <<title>>]>>)
    /\ notices' = <<>>
    /\ UNCHANGED <<client, activeIsTarget, editorVersion, editorText, fixVars, unitVars, valVars, restVars>>

\* the user changes the document
userTypes ==
    /\ editorVersion < MaxVersion
    /\ editorVersion' = editorVersion + 1
    /\ editorText' = Append(editorText, [by |-> "user", newText |-> <<>>])
    /\ UNCHANGED <<client, activeIsTarget, command, notices, fixVars, unitVars, valVars, restVars>>

\* the user moves to another editor, or back
switchEditor ==
    /\ activeIsTarget' = ~activeIsTarget
    /\ UNCHANGED <<client, editorVersion, editorText, command, notices, fixVars, unitVars, valVars, restVars>>

\* the user runs the command: the registered function, and textEditor.edit
\* when the function calls it, which changes the document or fails
executeCommand ==
    /\ command # NoCommand
    /\ LET done == IF command.command = "_tslint.applyDisableRule"
                   THEN applyDisableRuleEdit(client, activeIsTarget, editorVersion,
                                             command.documentVersion, command.edits)
                   ELSE applyTextEdits(client, activeIsTarget, editorVersion,
                                       command.documentVersion, command.edits)
       IN  \/ /\ done.edit = <<>>
              /\ notices' = done.notices
              /\ UNCHANGED <<editorVersion, editorText>>
           \/ /\ done.edit # <<>>
              /\ editorVersion < MaxVersion
              /\ notices' = done.notices
              /\ editorVersion' = editorVersion + 1
              /\ editorText' = Append(editorText,
                     [by |-> "tslint", newText |-> done.edit[1].newText])
           \/ /\ done.edit # <<>>
              /\ client = "extension.ts"
              /\ notices' = Append(done.notices, failed)
              /\ UNCHANGED <<editorVersion, editorText>>
           \/ /\ done.edit # <<>>
              /\ client = "part_002"
              /\ notices' = done.notices
              /\ UNCHANGED <<editorVersion, editorText>>
    /\ command' = NoCommand
    /\ UNCHANGED <<client, activeIsTarget, fixVars, unitVars, valVars, restVars>>

InitApply ==
    /\ client \in {"extension.ts", "part_002"}
    /\ activeIsTarget = TRUE
    /\ editorVersion = 1
    /\ editorText = <<>>
    /\ command = NoCommand
    /\ notices = <<>>
    /\ fixIdle
    /\ unitIdle
    /\ valIdle
    /\ restIdle

NextApply ==
    \/ offerCommand
    \/ userTypes
    \/ switchEditor
    \/ executeCommand

SpecApply == InitApply /\ [][NextApply]_vars

\* the user runs a command in the editor of its document, and the version
\* the command carries is not the version of the document
staleCommandRuns ==
    /\ command # NoCommand
    /\ command' = NoCommand
    /\ activeIsTarget
    /\ command.documentVersion # editorVersion

\* C3: an edit-application command whose version is not the live version
\* of its document changes no text: it does nothing but show the notice
\* that the fixes are outdated.
C3_StaleCommandChangesNoText ==
    [][staleCommandRuns =>
          /\ editorText' = editorText
          /\ editorVersion' = editorVersion
          /\ \E i \in DOMAIN notices' : notices'[i] = outdated]_vars

(***************************************************************************)
(* The server: the handlers of the document and configuration events, the  *)
(* debounce of validation and the asynchronous validateTextDocument        *)
(* (validation.ts).  The server is one thread: a handler or a continuation *)
(* runs up to its next await; an await of a value that is there continues  *)
(* as a microtask, before the next message or timer is handled; an await   *)
(* of a request to the client, or of the resolution of the library,        *)
(* continues when the answer arrives.                                      *)
(***************************************************************************)
\* the largest version of the document
MaxDocVersion == 3

\* the document the validation is followed for
uri == "file:///a.ts"

\* the failures with a fix that tslint reports for the text of a version,
\* as keys of computeKey: one failure that every version has (key 0), and
\* one that only this version has
lintFailures(version) == {0, version}

\* settingsCache.promise: undefined, or the promise of a request that the
\* client has not answered (id is the request), or a promise that holds
\* the settings
NoPromise == [id |-> 0, resolved |-> FALSE]

ResolvedPromise == [id |-> 0, resolved |-> TRUE]

\* the promises of settings that a call of validateTextDocument or an event
\* handler awaits
promisesAwaited ==
    ({passes[p].awaits : p \in DOMAIN passes} \cup {h.awaits : h \in handlers}) \ {0}

\* new Promise<Settings>: a promise that is none of those awaited.  The
\* promises that are awaited are numbered from 1 in the order they were made
newPromise == Cardinality(promisesAwaited) + 1

\* the number of promise m after the promise n has got its settings
afterAnswer(m, n) == IF m = n THEN 0 ELSE IF m > n THEN m - 1 ELSE m

\* SettingsCache.get(connection, target) on the cache with this uri and this
\* promise: the cache afterwards, whose promise is the one returned.  A hit
\* returns the promise of the cache, answered or not; a miss with scoped
\* settings sets the uri and a new promise, and sends the request; without
\* scoped settings the promise holds the global settings
settingsCache_get(cacheUri, cachePromise, target) ==
    IF target = cacheUri
    THEN [uri |-> cacheUri, promise |-> cachePromise]
    ELSE IF scopedSettingsSupport
    THEN [uri |-> target,
          promise |-> [id |-> newPromise, resolved |-> FALSE]]
    ELSE [uri |-> cacheUri, promise |-> ResolvedPromise]

\* the promise that a caller awaits after settingsCache.get returned cache g
awaited(g) == IF g.promise.resolved THEN 0 ELSE g.promise.id

\* no continuation waits as a microtask: the next message or timer is handled
microtasksDone ==
    /\ \A p \in DOMAIN passes : ~passes[p].ready
    /\ \A h \in handlers : ~h.ready

freeSlots == {p \in DOMAIN passes : passes[p].pc = "idle"}

\* validateTextDocument up to its first await, of settingsCache.get, which
\* returned cache g
validateTextDocument(ps, g) ==
    LET p == CHOOSE q \in freeSlots : \A r \in freeSlots : q <= r
    IN  [ps EXCEPT ![p] = [pc |-> "settings", ready |-> g.promise.resolved,
                           contents |-> 0, awaits |-> awaited(g)]]

\* validateAllTextDocuments(documents.all())
validateAllTextDocuments(ps, g) ==
    IF document.open THEN validateTextDocument(ps, g) ELSE ps

\* the settings cache after validateAllTextDocuments, whose call of
\* settingsCache.get returned cache g
cacheAfterValidateAll(cacheUri, cachePromise, g) ==
    IF document.open THEN g ELSE [uri |-> cacheUri, promise |-> cachePromise]

\* Delayer.trigger: the timer of the delayer is set, or set again
triggerValidateDocument == validationDelayer' = "armed"

\* recordCodeAction for every failure of the text
recordCodeActions(recorded, keys, version) ==
    {f \in recorded : f.key \notin keys}
        \cup {[key |-> k, documentVersion |-> version] : k \in keys}

onDidOpen ==
    /\ microtasksDone
    /\ document.version = 0
    /\ document' = [open |-> TRUE, version |-> 1]
    /\ triggerValidateDocument
    /\ UNCHANGED <<run, scopedSettingsSupport, settingsCacheUri, settingsCachePromise,
                   document2Library, passes, handlers, published, codeFixActions,
                   fixVars, unitVars, clientVars, restVars>>

\* an event handler up to its await of settingsCache.get
handlerStarts(event) ==
    LET g == settingsCache_get(settingsCacheUri, settingsCachePromise, uri)
    IN  /\ Cardinality(handlers) < MaxHandlers
        /\ handlers' = handlers \cup
              {[event |-> event, ready |-> g.promise.resolved, awaits |-> awaited(g)]}
        /\ settingsCacheUri' = g.uri
        /\ settingsCachePromise' = g.promise

onDidChangeContent ==
    /\ microtasksDone
    /\ document.open
    /\ document.version < MaxDocVersion
    /\ document' = [document EXCEPT !.version = @ + 1]
    /\ handlerStarts("change")
    /\ UNCHANGED <<run, scopedSettingsSupport, validationDelayer,
                   document2Library, passes, published, codeFixActions,
                   fixVars, unitVars, clientVars, restVars>>

onDidSave ==
    /\ microtasksDone
    /\ document.open
    /\ handlerStarts("save")
    /\ UNCHANGED <<document, run, scopedSettingsSupport,
                   validationDelayer, document2Library, passes, published,
                   codeFixActions, fixVars, unitVars, clientVars, restVars>>

onDidClose ==
    /\ microtasksDone
    /\ document.open
    /\ document' = [document EXCEPT !.open = FALSE]
    /\ published' = [kind |-> "cleared", version |-> 0]
    /\ document2Library' = "absent"
    /\ UNCHANGED <<run, scopedSettingsSupport, settingsCacheUri, settingsCachePromise,
                   validationDelayer, passes, handlers, codeFixActions,
                   fixVars, unitVars, clientVars, restVars>>

\* the timer of the delayer fires: the callback of triggerValidateDocument
delayerTimeout ==
    /\ microtasksDone
    /\ validationDelayer = "armed"
    /\ freeSlots # {}
    /\ LET g == settingsCache_get(settingsCacheUri, settingsCachePromise, uri)
       IN  /\ passes' = validateTextDocument(passes, g)
           /\ settingsCacheUri' = g.uri
           /\ settingsCachePromise' = g.promise
    /\ validationDelayer' = "undefined"
    /\ UNCHANGED <<document, run, scopedSettingsSupport,
                   document2Library, handlers, published, codeFixActions,
                   fixVars, unitVars, clientVars, restVars>>

\* settingsCache.flush(), then validateAllTextDocuments
onDidChangeConfiguration ==
    /\ microtasksDone
    /\ document.open => freeSlots # {}
    /\ LET g == settingsCache_get("undefined", NoPromise, uri)
       IN  /\ passes' = validateAllTextDocuments(passes, g)
           /\ settingsCacheUri' = cacheAfterValidateAll("undefined", NoPromise, g).uri
           /\ settingsCachePromise' = cacheAfterValidateAll("undefined", NoPromise, g).promise
    /\ UNCHANGED <<document, run, scopedSettingsSupport, validationDelayer,
                   document2Library, handlers, published, codeFixActions,
                   fixVars, unitVars, clientVars, restVars>>

\* tslintConfigurationValid found the configuration valid, or not
onDidChangeWatchedFiles ==
    /\ microtasksDone
    /\ document.open => freeSlots # {}
    /\ \E valid \in BOOLEAN :
          LET g == settingsCache_get(settingsCacheUri, settingsCachePromise, uri)
              after == cacheAfterValidateAll(settingsCacheUri, settingsCachePromise, g)
          IN  IF valid
              THEN /\ passes' = validateAllTextDocuments(passes, g)
                   /\ settingsCacheUri' = after.uri
                   /\ settingsCachePromise' = after.promise
              ELSE UNCHANGED <<passes, settingsCacheUri, settingsCachePromise>>
    /\ UNCHANGED <<document, run, scopedSettingsSupport,
                   validationDelayer, document2Library, handlers, published,
                   codeFixActions, fixVars, unitVars, clientVars, restVars>>

\* the client answers the configuration request of a promise: the promise
\* holds the settings, and every call and handler that awaits it continues
settingsResponse ==
    /\ microtasksDone
    /\ \E n \in promisesAwaited :
          /\ passes' = [p \in DOMAIN passes |->
                           [passes[p] EXCEPT !.ready = (passes[p].awaits = n),
                                             !.awaits = afterAnswer(@, n)]]
          /\ handlers' = {[h EXCEPT !.ready = (h.awaits = n),
                                    !.awaits = afterAnswer(@, n)] : h \in handlers}
          /\ settingsCachePromise' =
                IF settingsCachePromise.id = n THEN ResolvedPromise
                ELSE [settingsCachePromise EXCEPT !.id = afterAnswer(@, n)]
    /\ UNCHANGED <<document, run, scopedSettingsSupport, settingsCacheUri,
                   validationDelayer, document2Library, published, codeFixActions,
                   fixVars, unitVars, clientVars, restVars>>

\* settingsCache.get is called for another document: the cache is that of
\* the other document, with a promise that no call for this document awaits
otherDocumentSettings ==
    /\ microtasksDone
    /\ scopedSettingsSupport
    /\ settingsCacheUri # "other"
    /\ settingsCacheUri' = "other"
    /\ settingsCachePromise' = NoPromise
    /\ UNCHANGED <<document, run, scopedSettingsSupport, validationDelayer,
                   document2Library, passes, handlers, published, codeFixActions,
                   fixVars, unitVars, clientVars, restVars>>

\* Files.resolve found the library: the promise of document2Library is
\* resolved and the callbacks that wait for it are queued
libraryResolved ==
    /\ microtasksDone
    /\ \/ document2Library = "pending"
       \/ \E p \in DOMAIN passes : passes[p].pc = "library"
    /\ document2Library' =
          IF document2Library = "pending" THEN "resolved" ELSE document2Library
    /\ passes' = [p \in DOMAIN passes |->
                     IF passes[p].pc = "library"
                     THEN [passes[p] EXCEPT !.ready = TRUE] ELSE passes[p]]
    /\ UNCHANGED <<document, run, scopedSettingsSupport, settingsCacheUri,
                   settingsCachePromise, validationDelayer, handlers, published,
                   codeFixActions, fixVars, unitVars, clientVars, restVars>>

\* onDidChangeContent and onDidSave after their await of the settings
handlerContinues ==
    \E h \in handlers :
        /\ h.ready
        /\ handlers' = handlers \ {h}
        /\ IF h.event = "change" /\ run = "onType"
              THEN triggerValidateDocument /\ UNCHANGED published
           ELSE IF h.event = "change" /\ run = "onSave"
              THEN published' = [kind |-> "cleared", version |-> 0]
                   /\ UNCHANGED validationDelayer
           ELSE IF h.event = "save" /\ run = "onSave"
              THEN triggerValidateDocument /\ UNCHANGED published
           ELSE UNCHANGED <<validationDelayer, published>>
        /\ UNCHANGED <<document, run, scopedSettingsSupport, settingsCacheUri,
                       settingsCachePromise, document2Library, passes, codeFixActions,
                       fixVars, unitVars, clientVars, restVars>>

\* validateTextDocument after the settings are there: it loads the library
\* when the document has none (loadLibrary awaits settingsCache.get first),
\* or waits for the library of the document
afterSettings(p) ==
    LET g == settingsCache_get(settingsCacheUri, settingsCachePromise, uri)
    IN  /\ passes[p].pc = "settings"
        /\ IF document2Library = "absent"
           THEN /\ passes' = [passes EXCEPT ![p] =
                       [@ EXCEPT !.pc = "loadLibrary", !.ready = g.promise.resolved,
                                 !.awaits = awaited(g)]]
                /\ settingsCacheUri' = g.uri
                /\ settingsCachePromise' = g.promise
           ELSE /\ passes' = [passes EXCEPT ![p] =
                       [@ EXCEPT !.pc = "library",
                                 !.ready = (document2Library = "resolved")]]
                /\ UNCHANGED <<settingsCacheUri, settingsCachePromise>>
        /\ UNCHANGED <<document2Library, codeFixActions, published>>

\* loadLibrary after its await of the settings: it starts the resolution and
\* sets the promise; validateTextDocument waits for the promise
afterLoadLibrary(p) ==
    /\ passes[p].pc = "loadLibrary"
    /\ document2Library' = "pending"
    /\ passes' = [passes EXCEPT ![p] = [@ EXCEPT !.pc = "library", !.ready = FALSE]]
    /\ UNCHANGED <<settingsCacheUri, settingsCachePromise, codeFixActions, published>>

\* the callback of the promise: doValidate up to its await of the settings
doValidateStart(p) ==
    LET g == settingsCache_get(settingsCacheUri, settingsCachePromise, uri)
    IN  /\ passes[p].pc = "library"
        /\ codeFixActions' = {}
        /\ passes' = [passes EXCEPT ![p] =
              [@ EXCEPT !.pc = "doValidate", !.ready = g.promise.resolved,
                        !.awaits = awaited(g)]]
        /\ settingsCacheUri' = g.uri
        /\ settingsCachePromise' = g.promise
        /\ UNCHANGED <<document2Library, published>>

\* doValidate reads the text and awaits getConfiguration; the TextDocument is
\* the object the document manager updates in place, so the text is that of
\* the version the document has now
doValidateGetText(p) ==
    /\ passes[p].pc = "doValidate"
    /\ passes' = [passes EXCEPT ![p] =
          [pc |-> "getConfiguration", ready |-> TRUE,
           contents |-> document.version, awaits |-> 0]]
    /\ UNCHANGED <<settingsCacheUri, settingsCachePromise, document2Library,
                   codeFixActions, published>>

\* doValidate lints the text it read and records the fixes of the failures
doValidateLint(p) ==
    /\ passes[p].pc = "getConfiguration"
    /\ codeFixActions' = recordCodeActions(codeFixActions,
                             lintFailures(passes[p].contents), document.version)
    /\ passes' = [passes EXCEPT ![p] = [@ EXCEPT !.pc = "sendDiagnostics"]]
    /\ UNCHANGED <<settingsCacheUri, settingsCachePromise, document2Library, published>>

\* the callback sends the diagnostics doValidate returned
sendDiagnostics(p) ==
    /\ passes[p].pc = "sendDiagnostics"
    /\ published' = [kind |-> "diagnostics", version |-> passes[p].contents]
    /\ passes' = [passes EXCEPT ![p] = NoPass]
    /\ UNCHANGED <<settingsCacheUri, settingsCachePromise, document2Library,
                   codeFixActions>>

\* a waiting continuation of validateTextDocument runs up to the next await
passContinues ==
    /\ \E p \in DOMAIN passes :
          /\ passes[p].ready
          /\ \/ afterSettings(p)
             \/ afterLoadLibrary(p)
             \/ doValidateStart(p)
             \/ doValidateGetText(p)
             \/ doValidateLint(p)
             \/ sendDiagnostics(p)
    /\ UNCHANGED <<document, run, scopedSettingsSupport,
                   validationDelayer, handlers, fixVars, unitVars, clientVars, restVars>>

InitVal ==
    /\ document = [open |-> FALSE, version |-> 0]
    /\ run \in {"onType", "onSave"}
    /\ scopedSettingsSupport \in BOOLEAN
    /\ settingsCacheUri = "undefined"
    /\ settingsCachePromise = [id |-> 0, resolved |-> FALSE]
    /\ validationDelayer = "undefined"
    /\ document2Library = "absent"
    /\ passes = [p \in 1..MaxPasses |-> NoPass]
    /\ handlers = {}
    /\ published = NoDiagnostics
    /\ codeFixActions = {}
    /\ fixIdle
    /\ unitIdle
    /\ clientIdle
    /\ restIdle

NextVal ==
    \/ onDidOpen
    \/ onDidChangeContent
    \/ onDidSave
    \/ onDidClose
    \/ delayerTimeout
    \/ onDidChangeConfiguration
    \/ onDidChangeWatchedFiles
    \/ settingsResponse
    \/ otherDocumentSettings
    \/ libraryResolved
    \/ handlerContinues
    \/ passContinues

SpecVal == InitVal /\ [][NextVal]_vars

\* the calls of validateTextDocument for the document that have started and
\* have not sent their diagnostics
inProgress == {p \in DOMAIN passes : passes[p].pc # "idle"}

\* C9: at no time are two validation passes of the same document in
\* progress, whatever the order of the open, change, save, settings-change
\* and watched-file events.
C9_OnePassPerDocument == Cardinality(inProgress) <= 1

\* C10: when passes of a document overlap, the diagnostics that stay
\* published and the fixes that stay recorded are those of the pass over
\* the newest version: diagnostics of an older version never replace those
\* of a newer one, and once no pass is in progress every recorded fix is of
\* the version of the published diagnostics.
C10_NewestVersionStays ==
    [][/\ (published.kind = "diagnostics" /\ published'.kind = "diagnostics")
            => published'.version >= published.version
       /\ (published'.kind = "diagnostics" /\ \A p \in DOMAIN passes' : passes'[p].pc = "idle")
            => \A f \in codeFixActions' : f.documentVersion = published'.version]_vars

\* ---------------------------------------------------------------------------
\* The debounce of the server whose timer callback is forceValidation
\* (src/unnamed/part_001): one document, its Delayers and its settings promise.

MaxDelayers == 3
MaxBursts == 3
MaxValidations == 3

Delayers == 1 .. MaxDelayers

\* new Delayer<void>(200): an object that no pending timer belongs to
newDelayer == CHOOSE d \in Delayers : d \notin delayerTimers

\* SettingsCache.get(uri) answers without a request to the client
settingsAtHand == ~scopedSettingsSupport \/ settingsPromise = "resolved"

\* SettingsCache.get(uri): the promise the cache holds afterwards
SettingsCache_get ==
    IF ~scopedSettingsSupport THEN "resolved"
    ELSE IF settingsPromise = "undefined" THEN "pending" ELSE settingsPromise

\* forceValidation(connection, document): validateTextDocument is awaited
\* and the entry of the document is deleted after it
forceValidation ==
    IF delayerEntry # 0
    THEN /\ validations' = validations + 1
         /\ settingsPromise' = SettingsCache_get
         /\ IF settingsAtHand
            THEN delayerEntry' = 0 /\ UNCHANGED forceAwaiting
            ELSE forceAwaiting' = forceAwaiting + 1 /\ UNCHANGED delayerEntry
    ELSE UNCHANGED <<validations, settingsPromise, forceAwaiting, delayerEntry>>

\* triggerValidateDocument(document), called by the open, change and save
\* handlers: the Delayer of the document is created when the document has
\* none, and its timer is (re)started
part_001_triggerValidateDocument ==
    /\ delayerEntry # 0 \/ delayerTimers # Delayers
    /\ LET d == IF delayerEntry = 0 THEN newDelayer ELSE delayerEntry
       IN /\ d \in delayerTimers \/ bursts < MaxBursts
          /\ delayerEntry' = d
          /\ delayerTimers' = delayerTimers \cup {d}
          /\ bursts' = IF d \in delayerTimers THEN bursts ELSE bursts + 1
    /\ UNCHANGED <<settingsPromise, forceAwaiting, validations, forcedValidations>>
    /\ UNCHANGED notForce

\* the timer of a Delayer fires: its callback calls forceValidation
forceDelayerTimeout ==
    /\ validations < MaxValidations
    /\ \E d \in delayerTimers :
        /\ delayerTimers' = delayerTimers \ {d}
        /\ forceValidation
    /\ UNCHANGED <<bursts, forcedValidations>>
    /\ UNCHANGED notForce

\* the client answers the configuration request: the promise resolves and
\* every call of validateTextDocument that awaits it runs to its end
forceSettingsResponse ==
    /\ settingsPromise = "pending"
    /\ settingsPromise' = "resolved"
    /\ forceAwaiting' = 0
    /\ delayerEntry' = IF forceAwaiting > 0 THEN 0 ELSE delayerEntry
    /\ UNCHANGED <<delayerTimers, validations, forcedValidations, bursts>>
    /\ UNCHANGED notForce

\* the AllFixes request: the handler awaits forceValidation first
forceAllFixesRequest ==
    /\ validations < MaxValidations
    /\ delayerEntry # 0
    /\ forceValidation
    /\ forcedValidations' = forcedValidations + 1
    /\ UNCHANGED <<delayerTimers, bursts>>
    /\ UNCHANGED notForce

InitForce ==
    /\ fixIdle
    /\ unitIdle
    /\ clientIdle
    /\ document = [open |-> TRUE, version |-> 1]
    /\ run = "onType"
    /\ scopedSettingsSupport \in BOOLEAN
    /\ settingsCacheUri = "undefined"
    /\ settingsCachePromise = [id |-> 0, resolved |-> FALSE]
    /\ validationDelayer = "undefined"
    /\ document2Library = "absent"
    /\ passes = [p \in 1..MaxPasses |-> NoPass]
    /\ handlers = {}
    /\ published = NoDiagnostics
    /\ codeFixActions = {}
    /\ forceIdle
    /\ fixAllIdle
    /\ passIdle
    /\ laterIdle

NextForce ==
    \/ part_001_triggerValidateDocument
    \/ forceDelayerTimeout
    \/ forceSettingsResponse
    \/ forceAllFixesRequest

SpecForce == InitForce /\ [][NextForce]_vars

\* C11: a document has at most one validation timer pending, and a burst
\* of triggers leads to exactly one validation pass started after its last
\* trigger: the timers never start more passes than there were bursts, and
\* when no timer is pending and no pass is under way every burst has had
\* its pass.
C11_OneTimerOnePassPerBurst ==
    /\ Cardinality(delayerTimers) <= 1
    /\ validations - forcedValidations <= bursts
    /\ (delayerTimers = {} /\ forceAwaiting = 0) => validations >= bursts

\* ---------------------------------------------------------------------------
\* The fix-all run of the client (src/unnamed/part_002): doFixAllProblems,
\* started by the save of the document or by the command.

\* the largest version the fixes of a run take the document to
MaxLiveVersion == 12

\* the instants at which Date.now() is read, in milliseconds
Clock == {0, 250, 500, 750}

\* the answers of the server to an AllFixes request for a document whose
\* live version is version: none, or a batch for that version or the one
\* before it
AllFixesResults(version) ==
    {NoResult} \cup
    [documentVersion : {v \in {version - 1, version} : v >= 1},
     overlappingFixes : BOOLEAN,
     edits : {<<[newText |-> <<"fixAll">>]>>}]

\* timeBudget && Date.now() - start > timeBudget
budgetExceeded(timeBudget, elapsed) == timeBudget # 0 /\ elapsed > timeBudget

\* loopCount++ > 10
retriesExceededLater(loopCount) == loopCount > 11

retriesExceeded(loopCount) == loopCount > 10

\* lastVersion !== result.documentVersion
serverVersionIgnored(lastVersion, result) == FALSE

serverVersionDiffers(lastVersion, result) == lastVersion # result.documentVersion

mismatch == "TSLint: Auto fix on save, fixes could not be applied (client version mismatch)."
notApplied == "TSLint: Auto fix on save, edits could not be applied"

\* willSaveTextDocument (time budget 500) and fixAllProblems (no time
\* budget): doFixAllProblems reads the clock and the version and sends the
\* first request
doFixAllProblems ==
    /\ fixAllRun.pc = "idle"
    /\ \E timeBudget \in {0, 500} :
          fixAllRun' = [NoRun EXCEPT !.pc = "awaiting", !.timeBudget = timeBudget,
                                     !.start = now, !.lastVersion = editorVersion,
                                     !.requests = 1]
    /\ notices' = <<>>
    /\ UNCHANGED <<client, activeIsTarget, editorVersion, editorText, command, now>>
    /\ UNCHANGED notFixAll

\* the run ends
break(r) == [r EXCEPT !.pc = "done"]

\* the server answers the request: one iteration of the loop, up to the
\* next request or to the end of the run
fixAllIteration ==
    /\ fixAllRun.pc = "awaiting"
    /\ \E result \in AllFixesResults(editorVersion) :
        LET loop == [fixAllRun EXCEPT !.result = result]
            counted == [loop EXCEPT !.loopCount = @ + 1]
            again(r) == [r EXCEPT !.requests = @ + 1]
        IN
        IF budgetExceeded(loop.timeBudget, now - loop.start)
        THEN /\ fixAllRun' = break(loop)
             /\ UNCHANGED <<editorVersion, editorText, notices>>
        ELSE IF retriesExceeded(loop.loopCount) \/ result = NoResult
        THEN /\ fixAllRun' = break(counted)
             /\ UNCHANGED <<editorVersion, editorText, notices>>
        ELSE IF loop.lastVersion # editorVersion
        THEN /\ fixAllRun' = break(counted)
             /\ notices' = Append(notices, mismatch)
             /\ UNCHANGED <<editorVersion, editorText>>
        ELSE IF serverVersionDiffers(loop.lastVersion, result)
        THEN /\ fixAllRun' = again(counted)
             /\ UNCHANGED <<editorVersion, editorText, notices>>
        ELSE LET done == part_002_applyTextEdits(activeIsTarget, editorVersion, -1,
                                                 result.edits)
                 next(r) == IF result.overlappingFixes THEN again(r) ELSE break(r)
             IN  \/ /\ done.edit = <<>>
                    /\ fixAllRun' = next(counted)
                    /\ UNCHANGED <<editorVersion, editorText, notices>>
                 \/ /\ done.edit # <<>>
                    /\ editorVersion < MaxLiveVersion
                    /\ editorVersion' = editorVersion + 1
                    /\ editorText' = Append(editorText,
                           [by |-> "tslint", newText |-> done.edit[1].newText])
                    /\ fixAllRun' = next([counted EXCEPT !.lastVersion = editorVersion + 1,
                                                          !.applied = @ + 1])
                    /\ UNCHANGED notices
                 \/ /\ done.edit # <<>>
                    /\ fixAllRun' = break(counted)
                    /\ notices' = Append(notices, notApplied)
                    /\ UNCHANGED <<editorVersion, editorText>>
    /\ UNCHANGED <<client, activeIsTarget, command, now>>
    /\ UNCHANGED notFixAll

\* time passes while the run awaits the server
clockAdvances ==
    /\ \E t \in Clock : t > now /\ now' = t
    /\ UNCHANGED <<clientVars, fixAllRun>>
    /\ UNCHANGED notFixAll

InitFixAll ==
    /\ client = "part_002"
    /\ activeIsTarget = TRUE
    /\ editorVersion = 1
    /\ editorText = <<>>
    /\ command = NoCommand
    /\ notices = <<>>
    /\ fixIdle
    /\ unitIdle
    /\ valIdle
    /\ restIdle

NextFixAll ==
    \/ doFixAllProblems
    \/ fixAllIteration
    \/ clockAdvances
    \/ userTypes
    \/ switchEditor

SpecFixAll == InitFixAll /\ [][NextFixAll]_vars

\* the run goes through the body of the loop once more
iterates == fixAllRun'.loopCount > fixAllRun.loopCount

\* the original reading of C12: no iteration from the instant 500 ms have
\* elapsed
C12_NoIterationAt500 ==
    [][/\ fixAllRun'.requests <= 12
       /\ fixAllRun'.applied <= 11
       /\ (iterates /\ fixAllRun.timeBudget # 0) => now - fixAllRun.start < 500]_vars

\* C12: a fix-all run sends at most 12 AllFixes requests and applies at
\* most 11 batches of edits, and a run started by a save goes through the
\* loop no more once more than 500 ms have elapsed since it began.
C12_BoundedRun ==
    [][/\ fixAllRun'.requests <= 12
       /\ fixAllRun'.applied <= 11
       /\ (iterates /\ fixAllRun.timeBudget # 0) => now - fixAllRun.start <= 500]_vars

\* a run started by a save has sent its twelfth request and applied eleven
\* batches, and has ended on its time budget at the answer to that request
C12_Witness ==
    /\ fixAllRun.pc = "done"
    /\ fixAllRun.timeBudget = 500
    /\ fixAllRun.requests = 12
    /\ fixAllRun.applied = 11
    /\ fixAllRun.loopCount = 11

\* C13: a fix-all run applies the edits of a batch only when the version
\* of the batch is the live version of the document at that moment.
C13_AppliedBatchIsOfLiveVersion ==
    [][fixAllRun'.applied > fixAllRun.applied
          => fixAllRun'.result.documentVersion = editorVersion]_vars

\* a run has met a batch of another version than the document's, dropped
\* it, and later applied a batch
C13_Witness ==
    /\ fixAllRun.applied >= 1
    /\ fixAllRun.loopCount > fixAllRun.applied

\* ---------------------------------------------------------------------------
\* The lint pass (doValidate of validation.ts, doRun of the TsLintRunner of
\* src/unnamed/part_001): two open documents, the single-entry configuration
\* cache, the engine's configuration lookup and its lint call.

MaxEngineCalls == 6
MaxWraps == 3

\* what findConfigurationPath / findConfiguration do for a path: they find
\* a configuration file, find none (the default configuration), or throw
Found == {"own", "default", "error"}

\* the outcomes of the lint call
LintResults == {"failures", "clean", "throws"}

\* the documents in the order of documents.all()
allDocuments == <<"a.ts", "b.ts">>

\* ConfigCache.get(forPath)
ConfigCache_miss(cache, forPath) == NoConfiguration

ConfigCache_get(cache, forPath) ==
    IF forPath = cache.filePath THEN cache.configuration ELSE NoConfiguration

\* ConfigCache.set(path, configuration)
ConfigCache_set(path, configuration) ==
    [filePath |-> path, configuration |-> configuration]

\* ConfigCache.flush()
ConfigCache_kept(cache) == cache

ConfigCache_flush(cache) == EmptyCache

\* findConfiguration throws, or answers with an error
findConfigurationNeverThrows(found) == FALSE

findConfigurationThrows(found) == found = "error"

\* getConfiguration(uri, filePath, library, configFileName): the cache and
\* the count of engine calls afterwards, whether it threw, and what it
\* returned
getConfiguration(cache, calls, filePath) ==
    LET config == ConfigCache_get(cache, filePath)
    IN  IF config # NoConfiguration
        THEN [cache |-> cache, calls |-> calls, threw |-> FALSE, configuration |-> config]
        ELSE IF findConfigurationThrows(engine[filePath])
        THEN [cache |-> cache, calls |-> calls + 1, threw |-> TRUE,
              configuration |-> NoConfiguration]
        ELSE LET configuration == [id |-> calls + 1,
                                   isDefaultLinterConfig |-> engine[filePath] = "default"]
                 set == ConfigCache_set(filePath, configuration)
             IN  [cache |-> set, calls |-> calls + 1, threw |-> FALSE,
                  configuration |-> set.configuration]

\* a variant of fileIsExcluded that ignores the setting of the patterns
fileIsDeclarationOnly(target) == target.ignoreDefinitionFiles /\ target.declaration

\* fileIsExcluded(settings, path): a declaration file while
\* ignoreDefinitionFiles is set, or a path that matches a pattern of
\* settings.exclude
fileIsExcluded(target) ==
    IF target.ignoreDefinitionFiles /\ target.declaration THEN TRUE
    ELSE target.matchesExclude

\* settings && !settings.enable
tslintDisabled(target) == ~target.enable

\* isJsDocument(document) && !settings.jsEnable
jsLintingDisabled(target) == target.js /\ ~target.jsEnable

\* validateTextDocument(connection, document) up to its first await
startPass(ps, d) == [ps EXCEPT ![d] = [NoLintPass EXCEPT !.pc = "settings"]]

\* room for the engine calls and the captures of a pass of every document
roomForPasses ==
    /\ engineCalls + Len(allDocuments) <= MaxEngineCalls
    /\ consoleWarn + Len(allDocuments) <= MaxWraps

\* the timer of a document fires: validateTextDocument for it
passTriggered ==
    /\ microtasks = <<>>
    /\ roomForPasses
    /\ \E d \in Docs :
          /\ lintPass' = startPass(lintPass, d)
          /\ microtasks' = <<d>>
    /\ UNCHANGED <<server, engine, validateWithDefaultConfig, configCache, engineCalls,
                   flushedAt, lastResolution, consoleWarn, diagnosticsOf,
                   configurationFailures>>
    /\ UNCHANGED notPass

\* validateAllTextDocuments(connection, documents.all())
startAllPasses ==
    /\ lintPass' = [d \in Docs |-> [NoLintPass EXCEPT !.pc = "settings"]]
    /\ microtasks' = allDocuments

\* onDidChangeWatchedFiles: configuration files changed on disk; the cache
\* is flushed and every document is validated
configFilesChanged ==
    /\ microtasks = <<>>
    /\ roomForPasses
    /\ engine' \in [Docs -> Found]
    /\ configCache' = ConfigCache_flush(configCache)
    /\ flushedAt' = engineCalls
    /\ lastResolution' = NoResolution
    /\ startAllPasses
    /\ configurationFailures' = [d \in Docs |-> 0]
    /\ UNCHANGED <<server, validateWithDefaultConfig, engineCalls, consoleWarn,
                   diagnosticsOf>>
    /\ UNCHANGED notPass

\* onDidChangeConfiguration: the settings changed; both caches are flushed
\* and every document is validated
settingsChanged ==
    /\ microtasks = <<>>
    /\ roomForPasses
    /\ validateWithDefaultConfig' \in BOOLEAN
    /\ configCache' = ConfigCache_flush(configCache)
    /\ flushedAt' = engineCalls
    /\ lastResolution' = NoResolution
    /\ startAllPasses
    /\ configurationFailures' = [d \in Docs |-> 0]
    /\ UNCHANGED <<server, engine, engineCalls, consoleWarn, diagnosticsOf>>
    /\ UNCHANGED notPass

\* the pass after getConfiguration, up to its return: p its locals, cache
\* the cache as it is now, result what the lint call does. revision is the
\* server; the value is the locals at the return and console.warn then.
afterGetConfiguration(revision, p, cache, result, target) ==
    IF p.threw
    THEN [pass |-> [p EXCEPT !.reported = TRUE, !.diagnostics = "empty"],
          warn |-> consoleWarn]
    ELSE IF jsLintingDisabled(target)
    THEN [pass |-> [p EXCEPT !.diagnostics = "empty"], warn |-> consoleWarn]
    ELSE IF validateWithDefaultConfig = FALSE /\ cache.configuration.isDefaultLinterConfig
    THEN [pass |-> [p EXCEPT !.decided = TRUE, !.flagUsed = TRUE, !.diagnostics = "empty"],
          warn |-> consoleWarn]
    ELSE LET q == [p EXCEPT !.decided = TRUE,
                            !.flagUsed = cache.configuration.isDefaultLinterConfig]
         IN  IF result = "throws"
             THEN IF revision = "validation.ts"
                  THEN [pass |-> [q EXCEPT !.linted = "threw", !.reported = TRUE,
                                           !.diagnostics = "empty"],
                        warn |-> consoleWarn]
                  ELSE [pass |-> [q EXCEPT !.linted = "threw", !.escaped = TRUE],
                        warn |-> consoleWarn]
             ELSE [pass |-> [q EXCEPT !.linted = "ok", !.diagnostics = result],
                   warn |-> IF revision = "validation.ts"
                            THEN consoleWarn + 1 ELSE consoleWarn]

\* connection.sendDiagnostics({ uri, diagnostics }) when the pass got to it
sent(held, p) == IF p.diagnostics = "none" THEN held ELSE p.diagnostics

\* the first continuation in the queue runs, up to the next await of its
\* pass
passContinuation ==
    /\ microtasks # <<>>
    /\ LET d == Head(microtasks)
           p == lintPass[d]
           disabled == tslintDisabled(lintTarget[d])
           excluded == ~disabled /\ fileIsExcluded(lintTarget[d])
           caught == IF p.pc = "settings"
                     THEN server = "part_001" /\ ~disabled /\ ~excluded
                          /\ getConfiguration(configCache, engineCalls, d).threw
                     ELSE p.pc = "getConfiguration" /\ p.threw
       IN  /\ configurationFailures' =
                 IF caught THEN [configurationFailures EXCEPT ![d] = @ + 1]
                 ELSE configurationFailures
           /\ CASE p.pc = "settings" /\ disabled ->
                     \* validation.ts returns; the runner's server sends an
                     \* empty list "to flush existing warnings" and returns
                     /\ lintPass' = [lintPass EXCEPT ![d] = [p EXCEPT !.pc = "idle"]]
                     /\ diagnosticsOf' =
                           IF server = "validation.ts" THEN diagnosticsOf
                           ELSE [diagnosticsOf EXCEPT ![d] = "empty"]
                     /\ microtasks' = Tail(microtasks)
                     /\ UNCHANGED <<configCache, engineCalls, lastResolution, consoleWarn>>
                [] p.pc = "settings" /\ excluded ->
                     LET q == [p EXCEPT !.diagnostics = "empty"]
                     IN  /\ IF server = "validation.ts"
                            THEN /\ lintPass' = [lintPass EXCEPT ![d] =
                                                    [q EXCEPT !.pc = "sendDiagnostics"]]
                                 /\ microtasks' = Append(Tail(microtasks), d)
                                 /\ UNCHANGED diagnosticsOf
                            ELSE /\ lintPass' = [lintPass EXCEPT ![d] =
                                                    [q EXCEPT !.pc = "idle"]]
                                 /\ diagnosticsOf' = [diagnosticsOf EXCEPT ![d] = sent(@, q)]
                                 /\ microtasks' = Tail(microtasks)
                         /\ UNCHANGED <<configCache, engineCalls, lastResolution,
                                        consoleWarn>>
                [] p.pc = "settings" /\ ~disabled /\ ~excluded ->
                     LET g == getConfiguration(configCache, engineCalls, d)
                         q == [p EXCEPT !.configuration = g.configuration, !.threw = g.threw]
                     IN  /\ configCache' = g.cache
                         /\ engineCalls' = g.calls
                         /\ lastResolution' =
                               IF g.threw THEN lastResolution
                               ELSE [filePath |-> d, configuration |-> g.configuration]
                         /\ IF server = "validation.ts"
                            THEN /\ lintPass' = [lintPass EXCEPT ![d] =
                                                    [q EXCEPT !.pc = "getConfiguration"]]
                                 /\ microtasks' = Append(Tail(microtasks), d)
                                 /\ UNCHANGED <<consoleWarn, diagnosticsOf>>
                            ELSE \E result \in LintResults :
                                   LET done == afterGetConfiguration(server, q, g.cache, result,
                                                                   lintTarget[d])
                                   IN  /\ lintPass' = [lintPass EXCEPT ![d] =
                                                          [done.pass EXCEPT !.pc = "idle"]]
                                       /\ consoleWarn' = done.warn
                                       /\ diagnosticsOf' = [diagnosticsOf EXCEPT ![d] =
                                                               sent(@, done.pass)]
                                       /\ microtasks' = Tail(microtasks)
                [] p.pc = "getConfiguration" ->
                     \E result \in LintResults :
                       LET done == afterGetConfiguration(server, p, configCache, result,
                                                               lintTarget[d])
                       IN  /\ lintPass' = [lintPass EXCEPT ![d] =
                                              [done.pass EXCEPT !.pc = "sendDiagnostics"]]
                           /\ consoleWarn' = done.warn
                           /\ microtasks' = Append(Tail(microtasks), d)
                           /\ UNCHANGED <<configCache, engineCalls, lastResolution,
                                          diagnosticsOf>>
                [] p.pc = "sendDiagnostics" ->
                     /\ lintPass' = [lintPass EXCEPT ![d] = [p EXCEPT !.pc = "idle"]]
                     /\ diagnosticsOf' = [diagnosticsOf EXCEPT ![d] = sent(@, p)]
                     /\ microtasks' = Tail(microtasks)
                     /\ UNCHANGED <<configCache, engineCalls, lastResolution, consoleWarn>>
    /\ UNCHANGED <<server, engine, validateWithDefaultConfig, flushedAt>>
    /\ UNCHANGED notPass

InitPass ==
    /\ fixIdle
    /\ unitIdle
    /\ clientIdle
    /\ valIdle
    /\ forceIdle
    /\ fixAllIdle
    /\ laterIdle
    /\ server \in {"validation.ts", "part_001"}
    /\ engine \in [Docs -> Found]
    /\ validateWithDefaultConfig \in BOOLEAN
    /\ configCache = EmptyCache
    /\ engineCalls = 0
    /\ flushedAt = 0
    /\ lastResolution = NoResolution
    /\ microtasks = <<>>
    /\ lintPass = [d \in Docs |-> NoLintPass]
    /\ consoleWarn = 0
    /\ diagnosticsOf = [d \in Docs |-> "none"]
    /\ configurationFailures = [d \in Docs |-> 0]

NextPass ==
    \/ passTriggered
    \/ configFilesChanged
    \/ settingsChanged
    \/ passContinuation

SpecPass == InitPass /\ [][NextPass]_vars

\* getConfiguration returned in this step, for the path of the call before
\* it, and the cache was not flushed in between
resolvedAgain ==
    /\ microtasks # <<>>
    /\ lintPass[Head(microtasks)].pc = "settings"
    /\ lastResolution.filePath = Head(microtasks)
    /\ lastResolution' # NoResolution

\* C14: of two consecutive calls of getConfiguration for the same path
\* with no flush between them, the second returns the very object the
\* first returned and does not call the engine.
C14_SecondResolutionIsCached ==
    [][resolvedAgain =>
          /\ lastResolution'.configuration = lastResolution.configuration
          /\ engineCalls' = engineCalls]_vars

\* two passes of a.ts have linted, the only ones so far, and the engine was
\* asked for the configuration once
C14_Witness ==
    /\ engineCalls = 1
    /\ lastResolution.filePath = "a.ts"
    /\ lintPass["a.ts"].pc = "idle"
    /\ lintPass["a.ts"].configuration.id = 1
    /\ lintPass["b.ts"] = NoLintPass
    /\ diagnosticsOf["a.ts"] = "clean"
    /\ consoleWarn >= 2

\* a handler that flushes the cache and validates every document ran
notified == microtasks = <<>> /\ microtasks' = allDocuments

\* C15: after a notification of a configuration change the cache holds no
\* entry, and every configuration that getConfiguration returns from then
\* on, for any path, was computed by the engine after the notification.
C15_FlushedCacheResolvesFresh ==
    [][/\ notified => configCache' = EmptyCache
       /\ lastResolution' # NoResolution
             => lastResolution'.configuration.id > flushedAt']_vars

\* the configuration of a.ts was resolved, the cache was flushed, and the
\* next pass of a.ts got a configuration computed anew
C15_Witness ==
    /\ flushedAt = 1
    /\ engineCalls = 2
    /\ lastResolution.filePath = "a.ts"
    /\ lastResolution.configuration.id = 2
    /\ diagnosticsOf["a.ts"] # "none"
    /\ diagnosticsOf["b.ts"] = "none"

\* C16: the decision whether a document is linted while
\* validateWithDefaultConfig is false is taken on the default flag of the
\* configuration resolved for the document's own path.
C16_DecisionOnOwnConfiguration ==
    \A d \in Docs :
        lintPass[d].decided
            => lintPass[d].flagUsed = lintPass[d].configuration.isDefaultLinterConfig

\* C17: after each step of a lint pass, however the lint call ended,
\* console.warn is the function it was before the pass.
C17_ConsoleWarnRestored == consoleWarn = 0

\* C18: when the lint call throws, the exception does not leave the pass,
\* the failure is reported, and the pass yields an empty list of
\* diagnostics.
C18_LintExceptionContained ==
    \A d \in Docs :
        lintPass[d].linted = "threw"
            => /\ ~lintPass[d].escaped
               /\ lintPass[d].reported
               /\ lintPass[d].diagnostics = "empty"

\* the pass of document d ends in this step, and its lint call threw
endsAfterThrow(d) ==
    /\ lintPass[d].pc # "idle"
    /\ lintPass'[d].pc = "idle"
    /\ lintPass'[d].linted = "threw"

\* C19: a pass whose lint call throws leaves the diagnostics published for
\* the document as they were.
C19_ThrowKeepsPublishedDiagnostics ==
    [][\A d \in Docs :
          (endsAfterThrow(d) /\ diagnosticsOf[d] = "failures")
              => diagnosticsOf'[d] = "failures"]_vars

\* C20: when the lookup of the configuration throws, the pass does not
\* call lint, lets no exception out and ends with an empty list of
\* diagnostics; and as long as the lookup for a document throws, no pass
\* of the document lints.
C20_ConfigurationFailureContained ==
    \A d \in Docs :
        /\ lintPass[d].threw
              => /\ lintPass[d].linted = "no"
                 /\ ~lintPass[d].escaped
                 /\ lintPass[d].reported \/ lintPass[d].pc # "idle"
                 /\ lintPass[d].diagnostics = "empty" \/ lintPass[d].pc = "getConfiguration"
        /\ engine[d] = "error" => lintPass[d].linted = "no"

\* a document had diagnostics, the lookup of its configuration then threw
\* in a pass, and the pass ended with an empty list
C20_Witness ==
    \E d \in Docs :
        /\ lintPass[d].threw
        /\ lintPass[d].pc = "idle"
        /\ diagnosticsOf[d] = "empty"
        /\ flushedAt >= 1

\* C21: a configuration whose lookup throws is reported once: while the
\* configuration is unchanged, the passes of a document report the failure
\* no more than once.
C21_ConfigurationFailureReportedOnce ==
    \A d \in Docs : configurationFailures[d] <= 1

\* ---------------------------------------------------------------------------
\* The resolution of the tslint library (loadLibrary of validation.ts and of
\* the TsLintRunner of src/unnamed/part_001): two documents, the binding of
\* each document to a library and the libraries loaded by path.

MaxResolutions == 2

\* the folder of a document
directory(d) == IF d = "a.ts" THEN "dirA" ELSE "dirB"

\* the modules on disk: none under a tslint.nodePath that does not exist
onDisk(places, nodePath) ==
    IF nodePath = "exists" THEN places ELSE places \ {"nodePath"}

\* Files.resolve('tslint', nodePath, cwd) and resolveTsLint(nodePath, cwd):
\* require.resolve in a process started in cwd with NODE_PATH = nodePath
Files_resolveNodePathFirst(nodePath, cwd, disk) ==
    IF nodePath \in disk THEN nodePath ELSE IF cwd \in disk THEN cwd ELSE ""

Files_resolve(nodePath, cwd, disk) ==
    IF cwd \in disk THEN cwd ELSE IF nodePath \in disk THEN nodePath ELSE ""

\* loadLibrary: the path the document is bound to, "" when every
\* resolution failed
loadLibrary(revision, nodePath, d, places) ==
    LET disk == onDisk(places, nodePath)
        np == IF revision = "part_001" THEN nodePath = "exists" ELSE nodePath # "unset"
        first == IF np THEN Files_resolve("nodePath", "nodePath", disk)
                 ELSE Files_resolve("undefined", directory(d), disk)
    IN  IF first # "" THEN first ELSE Files_resolve("global", directory(d), disk)

\* document2Library.has(uri): a binding whose resolution failed is a
\* binding
document2Library_hasResolved(l, d) ==
    l.document2Library[d].state \notin {"absent", "failed"}

document2Library_has(l, d) == l.document2Library[d].state # "absent"

\* path2Library.has(path)
path2Library_hasNever(l, path) == FALSE

path2Library_has(l, path) == l.path2Library[path] # "absent"

\* the library of a path: required when the map has no entry for the path
libraryOf(l, path) ==
    IF path2Library_has(l, path) THEN l
    ELSE IF path = ""
    THEN [l EXCEPT !.path2Library[path] = "undefined"]
    ELSE [l EXCEPT !.path2Library[path] = "library", !.requires[path] = @ + 1]

\* doValidate runs with the library of the path
lints(l, d, path) == [l EXCEPT !.linter[d] = [path |-> path, load |-> l.requires[path]]]

\* the caller is told that no library was found
notifies(l, d) == [l EXCEPT !.noLibraryRequests[d] = @ + 1]

\* TsLintRunner.runTsLint (part_001): loadLibrary when the document has no
\* binding, then the library of the binding, then doRun
runTsLint(l, d, nodePath, places) ==
    LET bound == IF ~document2Library_has(l, d)
                 THEN [l EXCEPT !.document2Library[d] =
                                   [state |-> "bound",
                                    path |-> loadLibrary("part_001", nodePath, d, places)],
                                !.resolutions[d] = @ + 1]
                 ELSE l
        path == bound.document2Library[d].path
        loaded == libraryOf(bound, path)
    IN  IF loaded.path2Library[path] = "library"
        THEN lints(loaded, d, path) ELSE notifies(loaded, d)

\* validateTextDocument (validation.ts) up to the promise of the binding:
\* loadLibrary when the document has no binding, then doValidate when the
\* binding has its library
validateWithLibrary(l, d, nodePath) ==
    LET binding == l.document2Library[d]
    IN  CASE ~document2Library_has(l, d) ->
               [l EXCEPT !.document2Library[d] = [state |-> "promise", path |-> ""],
                         !.resolutions[d] = @ + 1,
                         !.promises = @ \cup {[doc |-> d, nodePath |-> nodePath,
                                                bound |-> TRUE]}]
          [] binding.state = "bound" -> lints(l, d, binding.path)
          [] OTHER -> l

\* validateTextDocument of the revision
validateDocument(revision, l, d, nodePath, places) ==
    IF revision = "part_001" THEN runTsLint(l, d, nodePath, places)
    ELSE validateWithLibrary(l, d, nodePath)

\* validateAllTextDocuments(connection, documents.all())
validateOpenDocuments(revision, l, open, nodePath, places) ==
    LET first == IF open["a.ts"] THEN validateDocument(revision, l, "a.ts", nodePath, places)
                 ELSE l
    IN  IF open["b.ts"] THEN validateDocument(revision, first, "b.ts", nodePath, places)
        ELSE first

\* the resolutions and the notifications of l are within the bound
withinBound(l) ==
    /\ l.resolutions["a.ts"] + l.resolutions["b.ts"] <= MaxResolutions
    /\ l.noLibraryRequests["a.ts"] + l.noLibraryRequests["b.ts"] <= MaxResolutions

\* the document is opened
libraryOnDidOpen ==
    /\ \E d \in Docs : ~docOpen[d] /\ docOpen' = [docOpen EXCEPT ![d] = TRUE]
    /\ UNCHANGED <<server, nodePathSetting, installed, lib>>
    /\ UNCHANGED notLib

\* the timer of an open document fires: validateTextDocument
libraryValidation ==
    /\ \E d \in Docs :
          /\ docOpen[d]
          /\ lib' = validateDocument(server, lib, d, nodePathSetting, installed)
    /\ withinBound(lib')
    /\ UNCHANGED <<server, nodePathSetting, installed, docOpen>>
    /\ UNCHANGED notLib

\* the promise of a resolution settles: the library of the path is loaded
\* and the waiting pass validates, or the client is sent the
\* NoTSLintLibraryRequest
libraryResolution ==
    /\ \E r \in lib.promises :
          LET path == loadLibrary("validation.ts", r.nodePath, r.doc, installed)
              settled == [lib EXCEPT !.promises = @ \ {r}]
              loaded == libraryOf(settled, path)
              done == IF path = "" THEN notifies(settled, r.doc)
                      ELSE lints(loaded, r.doc, path)
          IN  lib' = IF r.bound
                     THEN [done EXCEPT !.document2Library[r.doc] =
                              IF path = "" THEN [state |-> "failed", path |-> ""]
                              ELSE [state |-> "bound", path |-> path]]
                     ELSE done
    /\ UNCHANGED <<server, nodePathSetting, installed, docOpen>>
    /\ UNCHANGED notLib

\* onDidClose: validation.ts deletes the binding of the document, part_001
\* keeps it
libraryOnDidClose ==
    /\ \E d \in Docs :
          /\ docOpen[d]
          /\ docOpen' = [docOpen EXCEPT ![d] = FALSE]
          /\ lib' = IF server = "part_001" THEN lib
                    ELSE [lib EXCEPT !.document2Library[d] = NoBinding,
                                     !.promises = {IF r.doc = d
                                                   THEN [r EXCEPT !.bound = FALSE]
                                                   ELSE r : r \in @}]
    /\ UNCHANGED <<server, nodePathSetting, installed>>
    /\ UNCHANGED notLib

\* onDidChangeConfiguration: the settings change and every open document
\* is validated
libraryOnDidChangeConfiguration ==
    /\ nodePathSetting' \in {"unset", "missing", "exists"}
    /\ lib' = validateOpenDocuments(server, lib, docOpen, nodePathSetting', installed)
    /\ withinBound(lib')
    /\ UNCHANGED <<server, installed, docOpen>>
    /\ UNCHANGED notLib

\* onDidChangeWatchedFiles: every open document is validated
libraryOnDidChangeWatchedFiles ==
    /\ lib' = validateOpenDocuments(server, lib, docOpen, nodePathSetting, installed)
    /\ withinBound(lib')
    /\ UNCHANGED <<server, nodePathSetting, installed, docOpen>>
    /\ UNCHANGED notLib

\* the user installs or removes the tslint module of one place
modulesChange ==
    /\ \E place \in Places :
          installed' = IF place \in installed THEN installed \ {place}
                       ELSE installed \cup {place}
    /\ UNCHANGED <<server, nodePathSetting, docOpen, lib>>
    /\ UNCHANGED notLib

InitLibrary ==
    /\ fixIdle
    /\ unitIdle
    /\ clientIdle
    /\ valIdle
    /\ forceIdle
    /\ fixAllIdle
    /\ server \in {"validation.ts", "part_001"}
    /\ engine = [d \in Docs |-> "own"]
    /\ validateWithDefaultConfig = TRUE
    /\ configCache = EmptyCache
    /\ engineCalls = 0
    /\ flushedAt = 0
    /\ lastResolution = NoResolution
    /\ microtasks = <<>>
    /\ lintPass = [d \in Docs |-> NoLintPass]
    /\ consoleWarn = 0
    /\ diagnosticsOf = [d \in Docs |-> "none"]
    /\ configurationFailures = [d \in Docs |-> 0]
    /\ nodePathSetting \in {"unset", "missing", "exists"}
    /\ installed \in SUBSET Places
    /\ docOpen = [d \in Docs |-> FALSE]
    /\ lib = NoLib
    /\ recordIdle
    /\ saveIdle
    /\ lastIdle

NextLibrary ==
    \/ libraryOnDidOpen
    \/ libraryValidation
    \/ libraryResolution
    \/ libraryOnDidClose
    \/ libraryOnDidChangeConfiguration
    \/ libraryOnDidChangeWatchedFiles
    \/ modulesChange

SpecLibrary == InitLibrary /\ [][NextLibrary]_vars

\* the resolution of document d has failed in validation.ts, and the step
\* is not the end of a resolution that began before the failure
staysFailed(d) ==
    /\ server = "validation.ts"
    /\ lib.document2Library[d].state = "failed"
    /\ lib.promises \subseteq lib'.promises

resolutionFailed(d) ==
    /\ docOpen[d]
    /\ IF server = "part_001"
       THEN /\ lib.document2Library[d].state = "bound"
            /\ lib.document2Library[d].path = ""
       ELSE lib.document2Library[d].state = "failed"

\* C23: after the resolution of the library has failed for a document, a
\* configuration-change event (here one that changes tslint.nodePath)
\* causes exactly one new resolution attempt for the document.
C23_ConfigurationChangeResolvesAgain ==
    [][\A d \in Docs :
          (resolutionFailed(d) /\ nodePathSetting' # nodePathSetting) =>
              lib'.resolutions[d] = lib.resolutions[d] + 1]_vars

\* the place the claimed order finds the library for document d: the
\* tslint.nodePath when it exists, then the folders of the document, then
\* the global modules, "" when none has it
firstInOrder(d, nodePath, places) ==
    IF nodePath = "exists" /\ "nodePath" \in places THEN "nodePath"
    ELSE IF directory(d) \in places THEN directory(d)
    ELSE IF "global" \in places THEN "global"
    ELSE ""

\* the settings that the resolutions of document d ending in this step were
\* started with: the resolution of part_001 is one call, the one of
\* validation.ts ends when its promise settles (a step that closes a
\* document settles none)
resolvedWith(d) ==
    IF server = "part_001"
    THEN IF lib'.resolutions[d] = lib.resolutions[d] + 1 THEN {nodePathSetting'} ELSE {}
    ELSE IF docOpen' # docOpen THEN {}
    ELSE {r.nodePath : r \in {q \in lib.promises \ lib'.promises : q.doc = d}}

C25_OneInstancePerPath ==
    /\ \A path \in Paths : lib.requires[path] <= 1
    /\ \A d \in Docs :
          lib.linter[d] # NoLinter =>
              /\ lib.linter[d].load = 1
              /\ lib.requires[lib.linter[d].path] = 1
    /\ \A d, e \in Docs :
          (lib.linter[d] # NoLinter /\ lib.linter[e] # NoLinter
             /\ lib.linter[d].path = lib.linter[e].path) =>
              lib.linter[d].load = lib.linter[e].load

\* both documents were resolved to the global library, one after the other,
\* and it was loaded once
C25_Witness ==
    /\ lib.linter["a.ts"] = [path |-> "global", load |-> 1]
    /\ lib.linter["b.ts"] = [path |-> "global", load |-> 1]
    /\ lib.resolutions["a.ts"] = 1
    /\ lib.resolutions["b.ts"] = 1
    /\ lib.requires["global"] = 1

\* C26: closing a document removes its memoized binding to a library: after
\* the close the document has no binding, so the validation after a reopen
\* resolves the library anew.
C26_CloseRemovesBinding ==
    [][\A d \in Docs :
          (docOpen[d] /\ ~docOpen'[d]) =>
              lib'.document2Library[d] = NoBinding]_vars

\* the passes that send their diagnostics and end in this step
ending == {p \in DOMAIN passes :
              passes[p].pc = "sendDiagnostics" /\ passes'[p].pc = "idle"}

\* C27: when a validation pass of the document ends, the fixes recorded for
\* the document are those of the failures of that pass: no fix that another
\* pass recorded remains in the map with them.
C27_RecordedFixesAreOfThePass ==
    [][\A p \in ending :
          {f.key : f \in codeFixActions'} \subseteq lintFailures(passes[p].contents)]_vars

\* the answer is that of a fix-all request on save under a list of rules
onSaveWithRuleList ==
    /\ reply.kind = "allFixes"
    /\ reply.params.isOnSave
    /\ reply.params.autoFixOnSave.isArray

\* C30: with autoFixOnSave a list of rule names, the edits of the answer
\* to a fix-all request on save are those of fixes whose rule is in the
\* list, and the batch is the overlap filtering of the recorded fixes of the
\* listed rules alone.
C30_OnSaveOnlyListedRules ==
    onSaveWithRuleList =>
        LET listed == SelectSeq(documentFixes,
                         LAMBDA fix : fix.ruleName \in reply.params.autoFixOnSave.rules)
        IN  /\ \A i \in DOMAIN reply.all :
                  reply.all[i].ruleName \in reply.params.autoFixOnSave.rules
            /\ reply.commands[1].edits = concatenateEdits(reply.all)
            /\ reply.all = getAllNonOverlappingFixes(listed)

\* a save with the list {"r2"}: a recorded fix of r1 is left out, and the
\* fix of r2 that the walk over all the recorded fixes rejects is in the
\* answer
C30_Witness ==
    /\ onSaveWithRuleList
    /\ reply.params.autoFixOnSave.rules = {"r2"}
    /\ \E i \in DOMAIN documentFixes : documentFixes[i].ruleName = "r1"
    /\ Len(reply.all) >= 1
    /\ \E i \in DOMAIN reply.all :
          \A j \in DOMAIN getAllNonOverlappingFixes(documentFixes) :
              getAllNonOverlappingFixes(documentFixes)[j] # reply.all[i]

\* ---------------------------------------------------------------------------
\* The recording of the fixes of a pass (recordCodeAction of commands.ts and
\* of src/unnamed/part_014), the disable-rule commands of onCodeAction and
\* the client's applyDisableRuleEdit, over a document of a few lines.

MaxTextVersion == 3

\* the characters of a line: white space, and one token of code
Whitespace == {" ", "\t"}

\* the code of a line, named by the failure tslint reports for it: a rule
\* (q quotemark, e and o triple-equals, s semicolon) and the fix the engine
\* gives (1 none, 2 one without replacements, 3 one replacement); "ok" has
\* no failure
CodeTokens == {"q3", "e1", "e2", "o1", "s1", "s3"}

getRuleName(problem) ==
    CASE problem.code \in {"q3"} -> "quotemark"
      [] problem.code \in {"e1", "e2", "o1"} -> "triple-equals"
      [] OTHER -> "semicolon"

getFailure(problem) ==
    CASE problem.code \in {"q3"} -> "' should be \""
      [] problem.code \in {"e1", "e2"} -> "== should be ==="
      [] problem.code \in {"o1"} -> "Expected '===' here"
      [] OTHER -> "Missing semicolon"

\* problem.getFix(): undefined, or a Fix with its replacements
getFix(problem) ==
    CASE problem.code \in {"e1", "o1", "s1"} ->
            [defined |-> FALSE, replacements |-> <<>>]
      [] problem.code \in {"e2"} ->
            [defined |-> TRUE, replacements |-> <<>>]
      [] OTHER ->
            [defined |-> TRUE,
             replacements |-> <<[range |-> <<problem.start, problem.end>>,
                                 text |-> "engine"]>>]

\* the text of the directive that createDisableRuleFix writes
disableNextLine(ruleName) == "// tslint:disable-next-line:" \o ruleName

\* TextLine.firstNonWhitespaceCharacterIndex: the length of the line when
\* the line is white space only
firstCharacterIndex(text) == 0

RECURSIVE firstNonWhitespaceCharacterIndex(_)
firstNonWhitespaceCharacterIndex(text) ==
    IF text = <<>> \/ Head(text) \notin Whitespace THEN 0
    ELSE 1 + firstNonWhitespaceCharacterIndex(Tail(text))

\* String.prototype.substr(from, length)
substr(text, from, length) == SubSeq(text, from + 1, from + length)

\* the lines of a document: indented code, and a line of white space
TextLines ==
    {indent \o <<code>> : indent \in {<<>>, <<"\t", " ">>},
                          code \in CodeTokens \cup {"ok"}}
        \cup {<<" ">>}

\* document.getText(): the lines joined by line breaks
RECURSIVE getText(_)
getText(lines) ==
    IF lines = <<>> THEN <<>>
    ELSE IF Len(lines) = 1 THEN lines[1]
    ELSE lines[1] \o <<"\n">> \o getText(Tail(lines))

\* the lines of a text
RECURSIVE splitLines(_, _)
splitLines(text, line) ==
    IF text = <<>> THEN <<line>>
    ELSE IF Head(text) = "\n" THEN <<line>> \o splitLines(Tail(text), <<>>)
    ELSE splitLines(Tail(text), Append(line, Head(text)))

\* document.offsetAt(position)
RECURSIVE offsetAt(_, _)
offsetAt(lines, position) ==
    IF position.line = 0 THEN position.character
    ELSE Len(lines[1]) + 1
            + offsetAt(Tail(lines), [position EXCEPT !.line = @ - 1])

\* mutator.replace(range, newText) of textEditor.edit
replace(lines, location, newText) ==
    LET text == getText(lines)
        from == offsetAt(lines, location[1])
        to == offsetAt(lines, location[2])
    IN  splitLines(SubSeq(text, 1, from) \o newText \o SubSeq(text, to + 1, Len(text)),
                   <<>>)

\* the rule that the directive of a line disables for the next line
disabledBy(line) ==
    LET at == firstNonWhitespaceCharacterIndex(line)
    IN  IF at < Len(line) THEN line[at + 1] ELSE ""

\* tslint.lint: the failures of the lines, but for those the line before
\* disables
failuresOf(lines) ==
    {problem \in
        {[code |-> lines[i][Len(lines[i])],
          start |-> [line |-> i - 1, character |-> Len(lines[i]) - 1],
          end |-> [line |-> i - 1, character |-> Len(lines[i])]] :
            i \in {j \in DOMAIN lines : lines[j] # <<>>}} :
        /\ problem.code \in CodeTokens
        /\ \/ problem.start.line = 0
           \/ disabledBy(lines[problem.start.line])
                 # disableNextLine(getRuleName(problem))}

makeDiagnostic(problem) ==
    [range |-> <<problem.start, problem.end>>, code |-> getRuleName(problem),
     message |-> getFailure(problem)]

computeKey(diagnostic) == [range |-> diagnostic.range, code |-> diagnostic.code]

\* the fix creators of the fallback table, which is keyed by the name of
\* the rule; the creator of triple-equals returns null for a message it
\* does not know
createVscFixForRuleFailure(problem) ==
    CASE getRuleName(problem) = "quotemark" ->
            <<[range |-> <<problem.start, problem.end>>, text |-> "vsc"]>>
      [] getRuleName(problem) = "triple-equals"
            /\ getFailure(problem) \in {"== should be ===", "!= should be !=="} ->
            <<[range |-> <<problem.start, problem.end>>, text |-> "vsc"]>>
      [] OTHER -> <<>>

createAutoFix(problem, version, edits) ==
    [label |-> "Fix: " \o getFailure(problem), documentVersion |-> version,
     problem |-> problem, edits |-> edits]

createDisableRuleFix(problem, version) ==
    LET at == [line |-> problem.start.line, character |-> 0]
    IN  [label |-> "Disable rule " \o getRuleName(problem),
         documentVersion |-> version, problem |-> problem,
         edits |-> <<[range |-> <<at, at>>,
                      text |-> <<disableNextLine(getRuleName(problem)), "\n">>]>>]

\* the fix that recordCodeAction records for the failure, <<>> for none:
\* commands.ts takes the fix of the engine when it has replacements and the
\* fallback otherwise; part_014 takes the fix of the engine and then the
\* fallback in its place when there is one
fixOfProblem(revision, problem, version) ==
    LET engineFix == getFix(problem)
        vscFix == createVscFixForRuleFailure(problem)
    IN  IF revision = "commands.ts"
        THEN IF engineFix.defined /\ engineFix.replacements # <<>>
             THEN <<createAutoFix(problem, version, engineFix.replacements)>>
             ELSE IF vscFix # <<>> THEN <<createAutoFix(problem, version, vscFix)>>
             ELSE <<>>
        ELSE IF vscFix # <<>> THEN <<createAutoFix(problem, version, vscFix)>>
             ELSE IF engineFix.defined
             THEN <<createAutoFix(problem, version, engineFix.replacements)>>
             ELSE <<>>

\* recordCodeAction for the failures of a pass, after resetRuleFailures
RECURSIVE recordCodeAction(_, _, _, _)
recordCodeAction(revision, maps, problems, version) ==
    IF problems = {} THEN maps
    ELSE LET problem == CHOOSE p \in problems : TRUE
             key == computeKey(makeDiagnostic(problem))
             fix == fixOfProblem(revision, problem, version)
             disable == (key :> createDisableRuleFix(problem, version))
                            @@ maps.codeDisableRuleActions
             fixes == IF fix = <<>> THEN maps.codeFixActions
                      ELSE (key :> fix[1]) @@ maps.codeFixActions
         IN  recordCodeAction(revision,
                 [maps EXCEPT !.codeDisableRuleActions = disable,
                              !.codeFixActions = fixes],
                 problems \ {problem}, version)

\* the loop of onCodeAction that adds the fix to disable the rule, over the
\* first n diagnostics of the request
RECURSIVE disableRuleCommands(_, _, _)
disableRuleCommands(disableRuleFixes, diagnostics, n) ==
    IF n = 0 THEN <<>>
    ELSE LET before == disableRuleCommands(disableRuleFixes, diagnostics, n - 1)
             key == computeKey(diagnostics[n])
         IN  IF key \in DOMAIN disableRuleFixes
             THEN Append(before,
                         Command("_tslint.applyDisableRule",
                                 disableRuleFixes[key].documentVersion,
                                 createTextEdit(disableRuleFixes[key])))
             ELSE before

\* a pass of the document: doValidate resets the maps, lints the text and
\* records the fixes of every failure; the diagnostics are published
recordingPass ==
    /\ LET problems == failuresOf(buffer.lines)
           maps == recordCodeAction(recording.server,
                      [recording EXCEPT !.codeFixActions = <<>>,
                                        !.codeDisableRuleActions = <<>>],
                      problems, buffer.version)
       IN  recording' = [maps EXCEPT
                            !.diagnostics = {makeDiagnostic(p) : p \in problems},
                            !.context = <<>>, !.commands = <<>>,
                            !.ran = 0]
    /\ recording' # recording
    /\ UNCHANGED buffer
    /\ UNCHANGED notRecord

\* the code action request for one of the published diagnostics, or for two
\* of them
recordingOnCodeAction ==
    /\ recording.diagnostics # {}
    /\ \E context \in {<<d>> : d \in recording.diagnostics}
                         \cup {pair \in Seq2(recording.diagnostics) :
                                  pair[1].range[1].line < pair[2].range[1].line} :
          /\ recording' = [recording EXCEPT
                !.context = context,
                !.commands = disableRuleCommands(recording.codeDisableRuleActions,
                                                 context, Len(context)),
                !.ran = 0]
    /\ recording' # recording
    /\ UNCHANGED buffer
    /\ UNCHANGED notRecord

\* applyDisableRuleEdit and the applyTextEdits it calls: the edit to apply,
\* <<>> for none (part_002 returns when the versions differ)
disableRuleEdit(revision, lines, version, documentVersion, edits) ==
    LET edit == edits[1]
        ruleLine == lines[edit.range[1].line + 1]
        prefixIndex == firstNonWhitespaceCharacterIndex(ruleLine)
        prefix == substr(ruleLine, 0, prefixIndex)
    IN  IF revision = "part_002" /\ version # documentVersion THEN <<>>
        ELSE <<[edit EXCEPT !.newText = prefix \o edit.newText]>>

\* the user runs one of the offered disable-rule commands
runDisableRule ==
    /\ buffer.version < MaxTextVersion
    /\ \E i \in DOMAIN recording.commands :
          LET offered == recording.commands[i]
              edits == disableRuleEdit(recording.client, buffer.lines, buffer.version,
                                       offered.documentVersion, offered.edits)
          IN  /\ recording' = [recording EXCEPT !.ran = i]
              /\ buffer' = IF edits = <<>> THEN buffer
                           ELSE [lines |-> replace(buffer.lines, edits[1].range,
                                                   edits[1].newText),
                                 version |-> buffer.version + 1]
    /\ UNCHANGED notRecord

\* the user adds a line at the top of the document
recordingUserTypes ==
    /\ buffer.version < MaxTextVersion
    /\ buffer' = [lines |-> <<<<"ok">>>> \o buffer.lines,
                  version |-> buffer.version + 1]
    /\ recording' = [recording EXCEPT !.ran = 0]
    /\ UNCHANGED notRecord

InitRecord ==
    /\ fixIdle
    /\ unitIdle
    /\ clientIdle
    /\ valIdle
    /\ forceIdle
    /\ fixAllIdle
    /\ passIdle
    /\ libIdle
    /\ saveIdle
    /\ lastIdle
    /\ buffer \in [lines : [1..2 -> TextLines], version : {1}]
    /\ recording \in {[NoRecording EXCEPT !.server = s, !.client = c] :
                         s \in {"commands.ts", "part_014"},
                         c \in {"extension.ts", "part_002"}}

NextRecord ==
    \/ recordingPass
    \/ recordingOnCodeAction
    \/ runDisableRule
    \/ recordingUserTypes

SpecRecord == InitRecord /\ [][NextRecord]_vars

\* the white space a line begins with
RECURSIVE leadingWhitespace(_)
leadingWhitespace(text) ==
    IF text = <<>> \/ Head(text) \notin Whitespace THEN <<>>
    ELSE <<Head(text)>> \o leadingWhitespace(Tail(text))

\* the edit that disables the rule of the diagnostic: one insertion at the
\* start of the line of the failure
disableEditOf(diagnostic) ==
    [range |-> <<pos(diagnostic.range[1].line, 0), pos(diagnostic.range[1].line, 0)>>,
     text |-> <<disableNextLine(diagnostic.code), "\n">>]

\* every published diagnostic has its disable-rule fix recorded, and every
\* diagnostic of the code action request was answered with the command of
\* that fix
disableRuleOffered(r) ==
    /\ \A d \in r.diagnostics :
          /\ computeKey(d) \in DOMAIN r.codeDisableRuleActions
          /\ r.codeDisableRuleActions[computeKey(d)].edits = <<disableEditOf(d)>>
    /\ Len(r.commands) = Len(r.context)
    /\ \A i \in DOMAIN r.context :
          /\ r.commands[i].command = "_tslint.applyDisableRule"
          /\ r.commands[i].edits =
                <<[range |-> disableEditOf(r.context[i]).range,
                   newText |-> disableEditOf(r.context[i]).text]>>

\* the lines after the directive for the diagnostic was put before the line
\* of the failure, behind the white space that line begins with
withDirective(lines, diagnostic) ==
    LET line == diagnostic.range[1].line
    IN  SubSeq(lines, 1, line)
            \o <<leadingWhitespace(lines[line + 1])
                    \o <<disableNextLine(diagnostic.code)>>>>
            \o SubSeq(lines, line + 1, Len(lines))

\* C28: every diagnostic of a pass has a disable-rule fix recorded and is
\* offered its command, whether or not the failure has an auto fix; run on
\* the version it was recorded for, the command changes the text by one new
\* line before the line of the failure: the white space that line begins
\* with and the disable-next-line directive of the failure's rule.
C28_DisableRuleFix ==
    [][/\ disableRuleOffered(recording')
       /\ (recording'.ran # 0 /\ buffer' # buffer
             /\ recording.commands[recording'.ran].documentVersion = buffer.version)
            => buffer'.lines =
                  withDirective(buffer.lines, recording.context[recording'.ran])]_vars

\* the rule of a failure without auto fix, on an indented second line, was
\* disabled by the command
C28_Witness ==
    /\ recording.ran # 0
    /\ buffer.version = 2
    /\ Len(buffer.lines) = 3
    /\ buffer.lines[2] = <<"\t", " ", disableNextLine("semicolon")>>
    /\ buffer.lines[3] = <<"\t", " ", "s1">>
    /\ recording.codeFixActions = <<>>
    /\ recording.context[recording.ran].code = "semicolon"

\* the failure messages that the fallback table has a transform for
fallbackMessages == {"' should be \"", "== should be ===", "!= should be !=="}

\* the recorded fix of the failure is the one of the fallback table
fallbackRecorded(r, key) ==
    /\ key \in DOMAIN r.codeFixActions
    /\ r.codeFixActions[key].edits # <<>>
    /\ r.codeFixActions[key].edits[1].text = "vsc"

\* C29: the fix recorded for a failure is built from the fix of the engine
\* whenever that has at least one edit; the fallback transform is recorded
\* only when the engine gave no fix or one with no edits, and only for a
\* failure message the fallback table knows.
C29_EngineFixFirst ==
    \A key \in DOMAIN recording.codeDisableRuleActions :
        LET problem == recording.codeDisableRuleActions[key].problem
            engineFix == getFix(problem)
        IN  /\ (engineFix.defined /\ engineFix.replacements # <<>>) =>
                  /\ key \in DOMAIN recording.codeFixActions
                  /\ recording.codeFixActions[key].edits = engineFix.replacements
            /\ fallbackRecorded(recording, key) =>
                  /\ ~engineFix.defined \/ engineFix.replacements = <<>>
                  /\ getFailure(problem) \in fallbackMessages

\* ---------------------------------------------------------------------------
\* Fixing on save and by command: the client's will-save listener and its
\* command "Fix all auto-fixable problems" (tslint/extension.ts with the
\* server of commands.ts, src/unnamed/part_002 with the server of
\* src/unnamed/part_001), and the answers of the server's AllFixes handler.

\* the largest number of fixes recorded for the document that is saved
MaxSaved == 2

\* the largest version typing takes the saved document to
MaxTyped == 1

\* the fixes recorded for the saved document: one edit each, on line 1,
\* those of the first rule from the start of the line and those of the
\* others an insertion at its end
SavedFixes ==
    {fix \in SingleEditFixes :
        /\ fix.edits[1].range[1].line = 1
        /\ fix.edits[1].range[1].character = (IF fix.ruleName = "r1" THEN 0 ELSE 1)}

\* TextDocumentSaveReason
SaveReasons == {"Manual", "AfterDelay", "FocusOut"}

\* a save reason that lets the fixes run whatever it is
anyReason(reason) == TRUE

\* e.reason !== TextDocumentSaveReason.Manual, negated
isManual(reason) == reason = "Manual"

\* the truthiness of config.get('autoFixOnSave', false): an array is truthy
autoFixTruthy(s) == s.setting # "false"

\* settings.autoFixOnSave as the server sees it
serverAutoFixOnSave(s) == [isArray |-> s.setting = "array", rules |-> s.rules]

\* the loop of getAllNonOverlappingFixes over the first n sorted fixes: the
\* flag hasOverlappingFixes
RECURSIVE overlappingWalk(_, _)
overlappingWalk(fixes, n) ==
    IF n = 0 THEN FALSE
    ELSE \/ overlappingWalk(fixes, n - 1)
         \/ overlaps(getLastEdit(nonOverlappingWalk(fixes, n - 1)), fixes[n])

\* a walk that never sets the flag
neverOverlapping(fixes) == FALSE

hasOverlappingFixes(fixes) ==
    LET sorted == sortFixes(fixes)
    IN  overlappingWalk(sorted, Len(sorted))

\* the AllFixesResult of the server: commands.ts has no overlappingFixes
\* property (undefined, which is falsy), src/unnamed/part_001 sets it from
\* the walk
allFixesResult(revision, stored, isOnSave, autoFixOnSave) ==
    LET answer == onAllFixesRequestResult(stored, isOnSave, autoFixOnSave)
    IN  [answer |-> answer,
         overlappingFixes |-> IF revision = "part_001" /\ answer.kind = "allFixes"
                              THEN hasOverlappingFixes(answer.candidates)
                              ELSE FALSE]

\* the fixes as the validation of version records them again
relinted(fixes, version) ==
    [i \in DOMAIN fixes |-> [fixes[i] EXCEPT !.documentVersion = version]]

\* the record of the last event is of that event alone
forgotten(s) ==
    [s EXCEPT !.pc = "idle", !.origin = "none", !.reason = "none", !.isOnSave = FALSE,
              !.languageOk = TRUE,
              !.timeBudget = 0, !.loopCount = 0, !.lastVersion = 0, !.requests = 0,
              !.applied = 0, !.result = NoSaveResult, !.ended = "none"]

\* the request a client function sends
sendAllFixes(s, origin, isOnSave, timeBudget) ==
    [s EXCEPT !.pc = "awaiting", !.origin = origin, !.isOnSave = isOnSave,
              !.timeBudget = timeBudget, !.lastVersion = s.version, !.requests = 1]

\* the will-save listener.  extension.ts registers it in configurationChanged
\* while the setting is truthy; the later revision registers it once and
\* reads the setting at each event
\* linted: isTypeScriptDocument(document) || isEnabledForJavaScriptDocument(document)
willSaveTextDocument(reason) ==
    /\ saving.pc = "idle"
    /\ saving.client = "extension.ts" => saving.listening
    /\ \E linted \in BOOLEAN :
        LET event == [forgotten(saving) EXCEPT !.reason = reason, !.languageOk = linted]
        IN  saving' =
              IF saving.client = "part_002" /\ ~autoFixTruthy(saving) THEN event
              ELSE IF ~linted \/ ~isManual(reason) THEN event
              ELSE sendAllFixes(event, "save", TRUE,
                                IF saving.client = "part_002" THEN 500 ELSE 0)
    /\ UNCHANGED notSave

\* the command "Fix all auto-fixable problems": extension.ts sends the
\* request without isOnSave, the later revision calls doFixAllProblems,
\* which sends isOnSave: true
fixAllProblems ==
    /\ saving.pc = "idle"
    /\ saving' = sendAllFixes(forgotten(saving), "command",
                              saving.client = "part_002", 0)
    /\ UNCHANGED notSave

\* the document after the client has applied the batch of an answer
afterEdits(s, answer) ==
    [s EXCEPT !.version = @ + 1, !.applied = @ + 1,
              !.stored = removeFixes(s.stored, answer.all)]

\* extension.ts: the answer to the request of the listener or of the command
extensionAnswer(s, active) ==
    LET result == allFixesResult("commands.ts", s.stored, s.isOnSave,
                                 serverAutoFixOnSave(s))
        answer == result.answer
        taken == [s EXCEPT !.pc = "idle", !.ended = "answered",
                           !.result = [kind |-> answer.kind, all |-> answer.all,
                                       candidates |-> answer.candidates,
                                       overlappingFixes |-> result.overlappingFixes]]
        edits == answer.commands[1].edits
    IN  IF answer.kind # "allFixes" THEN taken
        ELSE IF s.origin = "save"
        THEN IF s.lastVersion = answer.documentVersion /\ edits # <<>>
             THEN afterEdits(taken, answer) ELSE taken
        ELSE IF extension_applyTextEdits(active, s.version, answer.documentVersion,
                                         edits).edit # <<>>
             THEN afterEdits(taken, answer) ELSE taken

\* the later revision: one iteration of the loop of doFixAllProblems, with
\* the answer of the server, which validates the document first; late: the
\* time budget is used up, ok: textEditor.edit applies the edits
laterAnswer(s, active, late, ok) ==
    LET fresh == [s EXCEPT !.stored = relinted(s.stored, s.version)]
        result == allFixesResult("part_001", fresh.stored, s.isOnSave,
                                 serverAutoFixOnSave(s))
        answer == result.answer
        taken == [fresh EXCEPT !.result = [kind |-> answer.kind, all |-> answer.all,
                                           candidates |-> answer.candidates,
                                           overlappingFixes |-> result.overlappingFixes]]
        counted == [taken EXCEPT !.loopCount = @ + 1]
        stop(r, why) == [r EXCEPT !.pc = "idle", !.ended = why]
        again(r) == [r EXCEPT !.requests = @ + 1]
        next(r) == IF result.overlappingFixes THEN again(r) ELSE stop(r, "nothing left")
    IN  IF s.timeBudget # 0 /\ late THEN stop(taken, "time budget")
        ELSE IF retriesExceeded(s.loopCount) THEN stop(counted, "retries")
        ELSE IF answer.kind # "allFixes" THEN stop(counted, "no result")
        ELSE IF s.lastVersion # s.version THEN stop(counted, "mismatch")
        ELSE IF s.lastVersion # answer.documentVersion THEN again(counted)
        ELSE LET done == part_002_applyTextEdits(active, s.version, -1,
                                                 answer.commands[1].edits)
             IN  IF done.edit = <<>> THEN next(counted)
                 ELSE IF ~ok THEN stop(counted, "not applied")
                 ELSE next([afterEdits(counted, answer) EXCEPT !.lastVersion = s.version + 1])

allFixesAnswer ==
    /\ saving.pc = "awaiting"
    /\ \E active \in BOOLEAN : \E late \in BOOLEAN : \E ok \in BOOLEAN :
          saving' = IF saving.client = "extension.ts"
                    THEN extensionAnswer(saving, active)
                    ELSE laterAnswer(saving, active, late, ok)
    /\ UNCHANGED notSave

\* the user changes the setting tslint.autoFixOnSave; configurationChanged
\* of extension.ts registers or disposes the listener
saveConfigurationChanged ==
    /\ saving.pc = "idle"
    /\ \E setting \in {"false", "true", "array"} :
       \E rules \in SUBSET Rules :
          /\ setting # "array" => rules = {}
          /\ <<setting, rules>> # <<saving.setting, saving.rules>>
          /\ saving' = [forgotten(saving) EXCEPT !.setting = setting, !.rules = rules,
                                                 !.listening = setting # "false"]
    /\ UNCHANGED notSave

\* the user types, also while a request of the command is pending (the
\* editor takes no input while the will-save listeners run); the server
\* validates the new version later
saveUserTypes ==
    /\ saving.pc = "idle" \/ saving.origin = "command"
    /\ saving.version <= MaxTyped
    /\ saving' = [IF saving.pc = "idle" THEN forgotten(saving) ELSE saving
                     EXCEPT !.version = @ + 1]
    /\ UNCHANGED notSave

\* the debounced validation of the document's current version
saveValidation ==
    /\ saving.pc = "idle"
    /\ saving.stored # relinted(saving.stored, saving.version)
    /\ saving' = [forgotten(saving) EXCEPT !.stored = relinted(saving.stored, saving.version)]
    /\ UNCHANGED notSave

InitSave ==
    /\ \E revision \in {"extension.ts", "part_002"} :
       \E stored \in SeqsUpTo(SavedFixes, MaxSaved) :
          saving = [NoSaving EXCEPT !.client = revision, !.stored = stored]
    /\ fixIdle
    /\ unitIdle
    /\ clientIdle
    /\ valIdle
    /\ forceIdle
    /\ fixAllIdle
    /\ passIdle
    /\ libIdle
    /\ recordIdle
    /\ lastIdle

NextSave ==
    \/ \E reason \in SaveReasons : willSaveTextDocument(reason)
    \/ fixAllProblems
    \/ allFixesAnswer
    \/ saveConfigurationChanged
    \/ saveUserTypes
    \/ saveValidation

SpecSave == InitSave /\ [][NextSave]_vars

\* C31: a will-save event whose reason is not a manual save sends no fix
\* request and changes no text, in both revisions of the client and
\* whatever the setting tslint.autoFixOnSave is.
C31_OnlyManualSaveFixes ==
    [][\A reason \in SaveReasons \ {"Manual"} :
          willSaveTextDocument(reason) =>
              /\ saving'.pc = "idle"
              /\ saving'.requests = 0
              /\ saving'.version = saving.version
              /\ saving'.stored = saving.stored]_vars

\* an automatic save of a document that has fixes, while fixing on save is
\* on and the document's language is one the extension lints
C31_Witness ==
    /\ saving.reason \in {"AfterDelay", "FocusOut"}
    /\ autoFixTruthy(saving)
    /\ saving.client = "extension.ts" => saving.listening
    /\ saving.languageOk
    /\ saving.stored # <<>>
    /\ saving.pc = "idle"

\* the step at which the client takes the answer to a request of the command
commandAnswered ==
    /\ saving.pc = "awaiting"
    /\ saving.origin = "command"
    /\ saving'.result.kind = "allFixes"

\* C38: the rule list of tslint.autoFixOnSave restricts save-triggered
\* fixing only: the answer to a request of the command "Fix all
\* auto-fixable problems" is computed from the recorded fixes of every rule.
C38_CommandFixesEveryRule ==
    [][commandAnswered =>
          relinted(saving'.result.candidates, 0) = relinted(saving.stored, 0)]_vars

\* the step at which doFixAllProblems takes a batch of the server
batchTaken ==
    /\ saving.pc = "awaiting"
    /\ saving.client = "part_002"
    /\ saving'.result.kind = "allFixes"

\* the fixes of candidates that are not in batch, counted with repetitions
omitted(candidates, batch) == Len(removeFixes(candidates, batch))

\* the flag of the batch just taken is set exactly when the batch omits a
\* candidate, and a batch with the flag clear holds every candidate
flagIffOmitted ==
    LET result == saving'.result
    IN  /\ result.overlappingFixes <=> omitted(result.candidates, result.all) > 0
        /\ Len(result.all) + omitted(result.candidates, result.all)
               = Len(result.candidates)
        /\ ~result.overlappingFixes => result.all = sortFixes(result.candidates)

\* the original reading of C39: a run stops asking for batches only when
\* the last batch left nothing out
C39_RunStopsOnlyWhenNothingOmitted ==
    [][batchTaken =>
          /\ flagIffOmitted
          /\ saving'.pc = "idle"
                => omitted(saving'.result.candidates, saving'.result.all) = 0]_vars

\* C39: the overlappingFixes flag of a fix-all result is true exactly when
\* the batch omits at least one of the candidate fixes handed to the overlap
\* filtering, and when it is false the batch holds every candidate; a run
\* that stops asking for batches at its test of the flag stops with a batch
\* that left no candidate out.
C39_FlagIffFixOmitted ==
    [][batchTaken =>
          /\ flagIffOmitted
          /\ saving'.ended = "nothing left"
                => /\ saving'.pc = "idle"
                   /\ omitted(saving'.result.candidates, saving'.result.all) = 0]_vars

\* a run has taken a batch that left a candidate out, with the flag set, and
\* has asked for a further batch
C39_Witness ==
    /\ saving.client = "part_002"
    /\ saving.pc = "awaiting"
    /\ saving.requests >= 2
    /\ saving.result.overlappingFixes
    /\ Len(saving.result.all) < Len(saving.result.candidates)

\* the fixes are in non-decreasing order of the start of their first edit,
\* and of its end where the starts are equal
orderedByFirstEdit(fixes) ==
    \A i \in DOMAIN fixes : \A j \in DOMAIN fixes :
        i < j => compareFixesByPosition(fixes[i], fixes[j]) <= 0

\* C33: after the sort step, for every input order, the candidate fixes are
\* in non-decreasing order of their first edit's start position, with ties
\* broken by the first edit's end position.
C33_SortedByFirstEdit ==
    Len(returned) >= 1 => orderedByFirstEdit(callerArray)

\* ---------------------------------------------------------------------------
\* The exclusion of documents from linting (fileIsExcluded and the test of
\* jsEnable in doValidate of validation.ts and in doRun of the runner of
\* src/unnamed/part_001): the lint pass above, for a document a.ts of any
\* kind under any settings, next to a plain document b.ts.

\* a document is TypeScript or JavaScript, and a declaration file is
\* TypeScript
FileTargets ==
    {t \in [declaration : BOOLEAN, matchesExclude : BOOLEAN, js : BOOLEAN,
            ignoreDefinitionFiles : BOOLEAN, jsEnable : BOOLEAN, enable : BOOLEAN] :
        t.js => ~t.declaration}

\* what a change of the settings leaves of a target: its path and language
sameFile(t, u) == t.declaration = u.declaration /\ t.js = u.js

\* onDidChangeConfiguration with a change of tslint.enable, tslint.jsEnable,
\* tslint.exclude or tslint.ignoreDefinitionFiles: both caches are flushed
\* and every document is validated
excludeSettingsChanged ==
    /\ microtasks = <<>>
    /\ roomForPasses
    /\ \E t \in FileTargets :
          /\ sameFile(t, lintTarget["a.ts"])
          /\ t # lintTarget["a.ts"]
          /\ lintTarget' = [lintTarget EXCEPT !["a.ts"] = t]
    /\ configCache' = ConfigCache_flush(configCache)
    /\ flushedAt' = engineCalls
    /\ lastResolution' = NoResolution
    /\ startAllPasses
    /\ configurationFailures' = [d \in Docs |-> 0]
    /\ UNCHANGED <<server, engine, validateWithDefaultConfig, engineCalls, consoleWarn,
                   diagnosticsOf>>
    /\ UNCHANGED <<fixVars, unitVars, clientVars, valVars, forceVars, fixAllVars,
                   libVars, recordVars, saveVars, mruCache>>

InitExclude ==
    /\ fixIdle
    /\ unitIdle
    /\ clientIdle
    /\ valIdle
    /\ forceIdle
    /\ fixAllIdle
    /\ libIdle
    /\ recordIdle
    /\ saveIdle
    /\ mruCache = EmptyMru
    /\ lintTarget \in {f \in [Docs -> FileTargets] : f["b.ts"] = PlainFile}
    /\ server \in {"validation.ts", "part_001"}
    /\ engine \in {e \in [Docs -> Found] : e["b.ts"] = "own"}
    /\ validateWithDefaultConfig \in BOOLEAN
    /\ configCache = EmptyCache
    /\ engineCalls = 0
    /\ flushedAt = 0
    /\ lastResolution = NoResolution
    /\ microtasks = <<>>
    /\ lintPass = [d \in Docs |-> NoLintPass]
    /\ consoleWarn = 0
    /\ diagnosticsOf = [d \in Docs |-> "none"]
    /\ configurationFailures = [d \in Docs |-> 0]

\* the timers of the documents fire and the settings that exclude documents
\* change; the configuration files stay as they are
NextExclude ==
    \/ passTriggered
    \/ excludeSettingsChanged
    \/ passContinuation

SpecExclude == InitExclude /\ [][NextExclude]_vars

\* tslint is enabled and the settings exclude document d from linting
skipped(d) ==
    /\ ~tslintDisabled(lintTarget[d])
    /\ fileIsExcluded(lintTarget[d]) \/ jsLintingDisabled(lintTarget[d])

\* this step is a step of the pass of document d
stepOfPass(d) == microtasks # <<>> /\ Head(microtasks) = d

\* C32: the pass of a document whose path matches an exclude pattern, or
\* that is a declaration file while ignoreDefinitionFiles is set, or that is
\* a JavaScript document while jsEnable is off, makes no call into the
\* engine, does not invoke the lint call and ends with an empty list of
\* diagnostics.
C32_ExcludedBeforeEngine ==
    [][\A d \in Docs :
          (skipped(d) /\ stepOfPass(d))
              => /\ engineCalls' = engineCalls
                 /\ lintPass'[d].linted = "no"
                 /\ lintPass'[d].pc = "idle" => diagnosticsOf'[d] = "empty"]_vars

\* ---------------------------------------------------------------------------
\* The MruCache (src/unnamed/part_013) that holds the bindings of documents
\* to libraries in the runner of src/unnamed/part_001: a Map of the values
\* and a Set of the keys in the order of their last use.

\* _maxSize of the cache of the model
MruMaxSize == 2

\* the file paths used as keys, and the values stored for them
MruKeys == {"a.ts", "b.ts", "c.ts", "d.ts"}
MruEntries == {"library", "no library"}

\* the elements of a Set, which iterates in insertion order
elements(entries) == {entries[i] : i \in DOMAIN entries}

\* Map.prototype.delete and Set.prototype.delete
mapDelete(map, key) == [k \in DOMAIN map \ {key} |-> map[k]]

setDelete(entries, key) == SelectSeq(entries, LAMBDA k : k # key)

\* Set.prototype.add: a key that is in the set keeps its place
setAdd(entries, key) ==
    IF key \in elements(entries) THEN entries ELSE Append(entries, key)

\* the loop of set over this._entries.keys(): while the set is larger than
\* maxSize, the first key is deleted from the map and from the set
RECURSIVE evict(_, _)
evict(c, maxSize) ==
    IF Len(c.entries) <= maxSize THEN c
    ELSE evict([c EXCEPT !.map = mapDelete(c.map, Head(c.entries)),
                         !.entries = Tail(c.entries), !.evicted = TRUE],
               maxSize)

\* a variant of set that deletes nothing
MruCache_setUnbounded(c, filePath, entry) ==
    [c EXCEPT !.map = (filePath :> entry) @@ c.map,
              !.entries = setAdd(c.entries, filePath)]

\* MruCache.set(filePath, entry)
MruCache_set(c, filePath, entry) ==
    evict([c EXCEPT !.map = (filePath :> entry) @@ c.map,
                    !.entries = setAdd(c.entries, filePath)],
          MruMaxSize)

\* MruCache.has(filePath)
MruCache_has(c, filePath) == filePath \in DOMAIN c.map

\* MruCache.get(filePath): the cache afterwards, with the value returned
MruCache_get(c, filePath) ==
    [c EXCEPT !.entries = IF filePath \in elements(c.entries)
                          THEN setAdd(setDelete(c.entries, filePath), filePath)
                          ELSE c.entries,
              !.got = IF filePath \in DOMAIN c.map THEN c.map[filePath] ELSE "undefined"]

mruSet ==
    /\ \E filePath \in MruKeys : \E entry \in MruEntries :
          mruCache' = MruCache_set(mruCache, filePath, entry)
    /\ UNCHANGED notMru

mruGet ==
    /\ \E filePath \in MruKeys : mruCache' = MruCache_get(mruCache, filePath)
    /\ UNCHANGED notMru

InitMru ==
    /\ mruCache = EmptyMru
    /\ lintTarget = [d \in Docs |-> PlainFile]
    /\ fixIdle
    /\ unitIdle
    /\ clientIdle
    /\ valIdle
    /\ forceIdle
    /\ fixAllIdle
    /\ passIdle
    /\ libIdle
    /\ recordIdle
    /\ saveIdle

NextMru == mruSet \/ mruGet

SpecMru == InitMru /\ [][NextMru]_vars

\* C40: after any sequence of set and get operations the cache holds at
\* most its maximum number of entries, and its value map and its recency
\* set contain exactly the same keys.
C40_MruBoundedAndConsistent ==
    /\ Cardinality(DOMAIN mruCache.map) <= MruMaxSize
    /\ Len(mruCache.entries) <= MruMaxSize
    /\ DOMAIN mruCache.map = elements(mruCache.entries)
    /\ Cardinality(elements(mruCache.entries)) = Len(mruCache.entries)

\* the cache is full, a set has evicted a key, a get has moved the older of
\* the keys that are left to the end, and a get of a key that is not in the
\* cache has returned undefined
C40_Witness ==
    /\ Len(mruCache.entries) = MruMaxSize
    /\ mruCache.evicted
    /\ mruCache.got = "undefined"
    /\ \E i \in DOMAIN mruCache.entries : \E j \in DOMAIN mruCache.entries :
          i < j /\ mruCache.entries[i] = "b.ts" /\ mruCache.entries[j] = "a.ts"

\* the pass of document d ends in this step
passEnds(d) == lintPass[d].pc # "idle" /\ lintPass'[d].pc = "idle"

\* C37: when tslint is disabled for a document, a validation pass of the
\* document makes no call into the engine, does not lint, and leaves the
\* document with an empty published set of diagnostics: the client holds
\* none of the failures published earlier.
C37_DisabledFlushesDiagnostics ==
    [][\A d \in Docs :
          (tslintDisabled(lintTarget[d]) /\ stepOfPass(d))
              => /\ engineCalls' = engineCalls
                 /\ lintPass'[d].linted = "no"
                 /\ passEnds(d) => diagnosticsOf'[d] # "failures"]_vars

\* the document was open and is closed
closed == document.version > 0 /\ ~document.open

\* C36: once a document is closed, the diagnostics published for it are
\* empty and stay empty while it remains closed: no validation that was
\* debounced or in flight at the close publishes findings for it afterwards.
C36_ClosedStaysEmpty == closed => published.kind = "cleared"

\* a call of loadLibrary for the document starts the resolution of the
\* engine in this step (Files.resolve is called and the binding is set)
resolutionStarts ==
    \E p \in DOMAIN passes :
        passes[p].pc = "loadLibrary" /\ passes'[p].pc = "library"

\* C35: for one document, the resolution of the engine is attempted at most
\* once while its binding exists, also when several validations of the
\* document start before the first resolution has finished: no resolution
\* starts while the document has a binding.
C35_OneResolutionPerBinding ==
    [][resolutionStarts => document2Library = "absent"]_vars

\* ---------------------------------------------------------------------------
\* The fix-all request of the server that validates through forceValidation
\* (src/unnamed/part_001), with the versions of the document: one open
\* document, a client without scoped settings, so that settingsCache.get
\* holds the global settings and each handler runs to its end before the
\* next message or timer is handled.

notBatch ==
    <<documentFixes, docVersion, rounds, unitVars, clientVars,
      scopedSettingsSupport, settingsCacheUri, settingsCachePromise,
      validationDelayer, document2Library, passes, handlers,
      settingsPromise, forceAwaiting, bursts, fixAllVars, passVars, laterVars>>

\* validateTextDocument: the fixes of the document are deleted, the text is
\* linted, the fixes of its failures are recorded and the diagnostics sent
part_001_validateTextDocument ==
    /\ validations' = validations + 1
    /\ codeFixActions' = recordCodeActions({}, lintFailures(document.version),
                                           document.version)
    /\ published' = [kind |-> "diagnostics", version |-> document.version]

\* forceValidation(connection, document): the document is validated when it
\* has an entry in validationDelayer, and the entry is deleted
part_001_forceValidation ==
    IF delayerEntry # 0
    THEN part_001_validateTextDocument /\ delayerEntry' = 0
    ELSE UNCHANGED <<validations, codeFixActions, published, delayerEntry>>

\* triggerValidateDocument(document): the Delayer of the document, a new
\* one when it has none, and its timer is set
versionedTrigger ==
    LET d == IF delayerEntry = 0 THEN newDelayer ELSE delayerEntry
    IN  /\ delayerEntry # 0 \/ delayerTimers # Delayers
        /\ delayerEntry' = d
        /\ delayerTimers' = delayerTimers \cup {d}

\* documents.onDidChangeContent: the document has a new version; it is
\* scheduled for validation only when settings.run is onType
part_001_onDidChangeContent ==
    /\ document.version < MaxDocVersion
    /\ document' = [document EXCEPT !.version = @ + 1]
    /\ IF run = "onType"
       THEN versionedTrigger /\ UNCHANGED published
       ELSE /\ published' = [kind |-> "cleared", version |-> 0]
            /\ UNCHANGED <<delayerEntry, delayerTimers>>
    /\ reply' = NoReply
    /\ UNCHANGED <<run, codeFixActions, validations, forcedValidations>>
    /\ UNCHANGED notBatch

\* documents.onDidSave
part_001_onDidSave ==
    /\ run = "onSave"
    /\ versionedTrigger
    /\ reply' = NoReply
    /\ UNCHANGED <<document, run, codeFixActions, published, validations,
                   forcedValidations>>
    /\ UNCHANGED notBatch

\* the timer of a Delayer fires: its callback calls forceValidation
versionedDelayerTimeout ==
    /\ validations < MaxValidations
    /\ \E d \in delayerTimers : delayerTimers' = delayerTimers \ {d}
    /\ part_001_forceValidation
    /\ reply' = NoReply
    /\ UNCHANGED <<document, run, forcedValidations>>
    /\ UNCHANGED notBatch

\* connection.onDidChangeConfiguration: the settings are new and every
\* document is validated, whatever validationDelayer holds
part_001_onDidChangeConfiguration ==
    /\ validations < MaxValidations
    /\ run' \in {"onType", "onSave"}
    /\ part_001_validateTextDocument
    /\ reply' = NoReply
    /\ UNCHANGED <<document, delayerEntry, delayerTimers, forcedValidations>>
    /\ UNCHANGED notBatch

\* the version of the batch: that of the first recorded fix.  A pass deletes
\* the fixes before it records, so the recorded fixes have one version
batchVersion(fixes) == CHOOSE v \in {f.documentVersion : f \in fixes} : TRUE

\* the handler of AllFixesRequest: forceValidation is awaited, then the
\* batch is made of the fixes that are recorded
part_001_onAllFixesRequest ==
    /\ validations < MaxValidations
    /\ part_001_forceValidation
    /\ forcedValidations' = IF delayerEntry # 0 THEN forcedValidations + 1
                            ELSE forcedValidations
    /\ reply' = IF codeFixActions' = {}
                THEN [NoReply EXCEPT !.kind = "undefined"]
                ELSE [NoReply EXCEPT !.kind = "allFixes",
                                     !.documentVersion = batchVersion(codeFixActions')]
    /\ UNCHANGED <<document, run, delayerTimers>>
    /\ UNCHANGED notBatch

\* the document was opened: onDidOpen has scheduled its validation
InitBatch ==
    /\ fixIdle
    /\ unitIdle
    /\ clientIdle
    /\ document = [open |-> TRUE, version |-> 1]
    /\ run \in {"onType", "onSave"}
    /\ scopedSettingsSupport = FALSE
    /\ settingsCacheUri = "undefined"
    /\ settingsCachePromise = [id |-> 0, resolved |-> FALSE]
    /\ validationDelayer = "undefined"
    /\ document2Library = "absent"
    /\ passes = [p \in 1..MaxPasses |-> NoPass]
    /\ handlers = {}
    /\ published = NoDiagnostics
    /\ codeFixActions = {}
    /\ delayerEntry = 1
    /\ delayerTimers = {1}
    /\ settingsPromise = "undefined"
    /\ forceAwaiting = 0
    /\ validations = 0
    /\ forcedValidations = 0
    /\ bursts = 0
    /\ fixAllIdle
    /\ passIdle
    /\ laterIdle

NextBatch ==
    \/ part_001_onDidChangeContent
    \/ part_001_onDidSave
    \/ versionedDelayerTimeout
    \/ part_001_onDidChangeConfiguration
    \/ part_001_onAllFixesRequest

SpecBatch == InitBatch /\ [][NextBatch]_vars

\* the document changed since its last validation: no recorded fix is of
\* the version the document has
changedSinceValidation ==
    \A f \in codeFixActions : f.documentVersion # document.version

\* C34: a fix-all request for a document that changed since its last
\* validation completes a validation pass of the current text before the
\* batch is computed, and the batch it returns is built from fixes of the
\* current version of the document.
C34_BatchOfCurrentVersion ==
    [][(reply'.kind # "none" /\ changedSinceValidation)
          => /\ validations' = validations + 1
             /\ reply'.kind = "allFixes"
             /\ reply'.documentVersion = document.version]_vars

====
